---- MODULE Spec2Model ----
(***************************************************************************)
(* A model of the OpenStack provider of jasmin_cloud                       *)
(* (src/jasmin_cloud/provider/openstack.py) and of the form authenticator  *)
(* of azimuth_auth (src/api/azimuth_auth/authenticator/openstack.py).      *)
(*                                                                         *)
(* The module holds several state machines over disjoint variables:        *)
(*   SpecErr   - one public operation is called against a backend whose    *)
(*               answer (response or failure) is chosen freely; `call`     *)
(*               records what the caller gets.                             *)
(*   SpecCache - the lru_cache'd lookups of ScopedSession.                 *)
(*   SpecVol   - the volume operations of ScopedSession against a          *)
(*               block-storage backend.                                    *)
(*   SpecSrv   - one conversion of a backend server into a dto.Machine, or *)
(*               of a backend volume status into a dto.Volume.Status.      *)
(*   SpecQuota - one call of quotas() whose backend calls succeed.         *)
(*   SpecKey   - create_machine calls with SSH keys against the key-pairs  *)
(*               of the compute service.                                   *)
(*   SpecNet   - the floating-IP operations and delete_machine against the *)
(*               servers, ports and floating IPs of a tenancy.             *)
(*   SpecRes   - the operations of SpecVol, or those of SpecNet.           *)
(*   SpecLap   - two attach_external_ip calls whose backend calls          *)
(*               interleave.                                               *)
(* Text is modelled as sequences of one-character strings, so that         *)
(* str.lower(), str.replace() and the `in` test are computed.              *)
(***************************************************************************)
EXTENDS Integers, Sequences, FiniteSets, TLC

VARIABLES call,
          imageCache, sizeCache, netCache, catalogue, lookup, known,
          volumes, held, vcall,
          built, quota, keypairs, submitted, kcall,
          servers, fips, ncall,
          bindings, attaching

errVars   == << call >>
cacheVars == << imageCache, sizeCache, netCache, catalogue, lookup, known >>
volVars   == << volumes, held, vcall >>
srvVars   == << built >>
quotaVars == << quota >>
keyVars   == << keypairs, submitted, kcall >>
netVars   == << servers, fips, ncall >>
lapVars   == << bindings, attaching >>
otherVars == << srvVars, quotaVars, keyVars, netVars, lapVars >>
\* What the actions of one machine leave unchanged.
exceptSrv   == << errVars, cacheVars, volVars, quotaVars, keyVars, netVars,
                  lapVars >>
exceptQuota == << errVars, cacheVars, volVars, srvVars, keyVars, netVars,
                  lapVars >>
exceptKey   == << errVars, cacheVars, volVars, srvVars, quotaVars, netVars,
                  lapVars >>
exceptLap   == << errVars, cacheVars, volVars, srvVars, quotaVars, keyVars,
                  netVars >>
exceptNet   == << errVars, cacheVars, volVars, srvVars, quotaVars, keyVars,
                  lapVars >>
vars      == << call, imageCache, sizeCache, netCache, catalogue, lookup, known,
                volumes, held, vcall, otherVars >>

---------------------------------------------------------------------------
(* Text                                                                    *)

UPPERCASE ==
    << "A", "B", "C", "D", "E", "F", "G", "H", "I", "J", "K", "L", "M",
       "N", "O", "P", "Q", "R", "S", "T", "U", "V", "W", "X", "Y", "Z" >>
LOWERCASE ==
    << "a", "b", "c", "d", "e", "f", "g", "h", "i", "j", "k", "l", "m",
       "n", "o", "p", "q", "r", "s", "t", "u", "v", "w", "x", "y", "z" >>

\* A mutation of LowerChar: no case folding.
LowerCharNoFold(c) == c

\* str.lower() on one character.
LowerChar(c) ==
    IF \E i \in 1..Len(UPPERCASE) : UPPERCASE[i] = c
    THEN LOWERCASE[CHOOSE i \in 1..Len(UPPERCASE) : UPPERCASE[i] = c]
    ELSE c

\* str.lower()
Lower(s) == [i \in 1..Len(s) |-> LowerChar(s[i])]

\* s.startswith(p)
StartsWith(s, p) ==
    /\ Len(p) <= Len(s)
    /\ \A i \in 1..Len(p) : s[i] = p[i]

\* Everything of s after its first n characters.
Drop(s, n) == [i \in 1..(Len(s) - n) |-> s[i + n]]

\* `p in s` for two strings: a left-to-right scan.
RECURSIVE Contains(_, _)
Contains(s, p) ==
    IF Len(s) < Len(p) THEN FALSE
    ELSE IF StartsWith(s, p) THEN TRUE
    ELSE Contains(Tail(s), p)

\* s.replace(old, new): every non-overlapping occurrence, left to right.
RECURSIVE Replace(_, _, _)
Replace(s, old, new) ==
    IF Len(s) < Len(old) \/ Len(old) = 0 THEN s
    ELSE IF StartsWith(s, old) THEN new \o Replace(Drop(s, Len(old)), old, new)
    ELSE << Head(s) >> \o Replace(Tail(s), old, new)

QUOTA_EXCEEDED ==
    << "q", "u", "o", "t", "a", " ", "e", "x", "c", "e", "e", "d", "e", "d" >>
S_instance  == << "i", "n", "s", "t", "a", "n", "c", "e" >>
S_machine   == << "m", "a", "c", "h", "i", "n", "e" >>
S_Instance  == << "I", "n", "s", "t", "a", "n", "c", "e" >>
S_Machine   == << "M", "a", "c", "h", "i", "n", "e" >>
S_flavorRef == << "f", "l", "a", "v", "o", "r", "R", "e", "f" >>
S_size      == << "s", "i", "z", "e" >>
S_flavor    == << "f", "l", "a", "v", "o", "r" >>
S_Flavor    == << "F", "l", "a", "v", "o", "r" >>
S_Size      == << "S", "i", "z", "e" >>

_REPLACEMENTS ==
    << << S_instance, S_machine >>,
       << S_Instance, S_Machine >>,
       << S_flavorRef, S_size >>,
       << S_flavor, S_size >>,
       << S_Flavor, S_Size >> >>

\* functools.reduce over _REPLACEMENTS, starting from the message.
RECURSIVE ReduceReplacements(_, _)
ReduceReplacements(message, k) ==
    IF k > Len(_REPLACEMENTS) THEN message
    ELSE ReduceReplacements(
             Replace(message, _REPLACEMENTS[k][1], _REPLACEMENTS[k][2]), k + 1)

_replace_resource_names(message) == ReduceReplacements(message, 1)

\* The messages a backend failure may carry.
MsgQuotaInstances ==
    << "Q", "u", "o", "t", "a", " ", "e", "x", "c", "e", "e", "d", "e", "d",
       " ", "f", "o", "r", " ", "i", "n", "s", "t", "a", "n", "c", "e", "s" >>
MsgQuotaUpper ==
    << "Q", "U", "O", "T", "A", " ", "E", "X", "C", "E", "E", "D", "E", "D" >>
MsgQuotaMixed ==
    << "F", "l", "a", "v", "o", "r", ":", " ", "q", "U", "o", "T", "a", " ",
       "E", "x", "C", "e", "E", "d", "E", "d", "!" >>
MsgQuotaSplit ==
    << "q", "u", "o", "t", "a", " ", "w", "a", "s", " ", "e", "x", "c", "e",
       "e", "d", "e", "d" >>
MsgInstanceLocked ==
    << "I", "n", "s", "t", "a", "n", "c", "e", " ", "i", "s", " ", "l", "o",
       "c", "k", "e", "d" >>
MsgNoFlavor ==
    << "4", "0", "4", " ", "N", "o", "t", " ", "F", "o", "u", "n", "d", ":",
       " ", "f", "l", "a", "v", "o", "r", "R", "e", "f" >>
MsgEmpty == << >>

Messages ==
    { MsgQuotaInstances, MsgQuotaUpper, MsgQuotaMixed, MsgQuotaSplit,
      MsgInstanceLocked, MsgNoFlavor, MsgEmpty }

---------------------------------------------------------------------------
(* Errors and backend failures                                             *)

\* The members of jasmin_cloud.provider.errors the provider raises.
Taxonomy ==
    { "Error", "AuthenticationError", "PermissionDeniedError",
      "ObjectNotFoundError", "QuotaExceededError", "BadInputError",
      "InvalidOperationError", "ImproperlyConfiguredError",
      "CommunicationError" }

\* HTTP statuses a failed backend call may carry.
HttpStatuses == { 400, 401, 403, 404, 409, 500, 503 }

\* What the caller of an operation gets.
Returned(v) == [kind |-> "return", err |-> "-", val |-> v]
Raised(e)   == [kind |-> "raise", err |-> e, val |-> "-"]

\* A backend call that did not fail.
NoFailure == [type |-> "none", status |-> 0, msg |-> MsgEmpty]

\* The exceptions a call into the SDK or into keystoneauth may raise:
\*   ResourceNotFound  openstack.exceptions.ResourceNotFound (an HttpException)
\*   HttpException     openstack.exceptions.HttpException: status_code, details
\*   HttpError         keystoneauth1.exceptions.http.HttpError: http_status, message
\*   SDKException      openstack.exceptions.SDKException, no status
\*   ClientException   keystoneauth1.exceptions.base.ClientException, no status
SdkFailures ==
    [type : {"ResourceNotFound"}, status : {404}, msg : Messages]
        \cup [type : {"HttpException", "HttpError"}, status : HttpStatuses, msg : Messages]
        \cup [type : {"SDKException", "ClientException"}, status : {0}, msg : {MsgEmpty}]

\* A mutation of convert_sdk_exceptions: the 404 branch is missing, so a 404
\* falls through to the final else.
convert_sdk_exceptions_no404(e) ==
    IF e.type = "ResourceNotFound" THEN Raised("ObjectNotFoundError")
    ELSE IF e.type \in {"HttpException", "HttpError"} THEN
        LET message == IF e.type = "HttpException"
                       THEN _replace_resource_names(e.msg)
                       ELSE e.msg
        IN  CASE e.status = 400 -> Raised("BadInputError")
              [] e.status = 401 -> Raised("AuthenticationError")
              [] e.status = 403 ->
                    IF Contains(Lower(message), QUOTA_EXCEEDED)
                    THEN Raised("QuotaExceededError")
                    ELSE Raised("PermissionDeniedError")
              [] e.status = 409 ->
                    IF Contains(Lower(message), QUOTA_EXCEEDED)
                    THEN Raised("QuotaExceededError")
                    ELSE Raised("InvalidOperationError")
              [] OTHER -> Raised("CommunicationError")
    ELSE Raised("Error")

\* The except clauses of the wrapper of convert_sdk_exceptions, applied to an
\* exception e of the SDK or of keystoneauth raised by the wrapped function.
convert_sdk_exceptions(e) ==
    IF e.type = "ResourceNotFound" THEN Raised("ObjectNotFoundError")
    ELSE IF e.type \in {"HttpException", "HttpError"} THEN
        LET message == IF e.type = "HttpException"
                       THEN _replace_resource_names(e.msg)
                       ELSE e.msg
        IN  CASE e.status = 400 -> Raised("BadInputError")
              [] e.status = 401 -> Raised("AuthenticationError")
              [] e.status = 403 ->
                    IF Contains(Lower(message), QUOTA_EXCEEDED)
                    THEN Raised("QuotaExceededError")
                    ELSE Raised("PermissionDeniedError")
              [] e.status = 404 -> Raised("ObjectNotFoundError")
              [] e.status = 409 ->
                    IF Contains(Lower(message), QUOTA_EXCEEDED)
                    THEN Raised("QuotaExceededError")
                    ELSE Raised("InvalidOperationError")
              [] OTHER -> Raised("CommunicationError")
    ELSE Raised("Error")

---------------------------------------------------------------------------
(* SpecErr: one call of a public operation                                 *)

\* Bound: how many projects the identity service lists.
MaxProjects == 2

TenancyIds == { "t1", "t2" }
UnknownTenancyId == "t9"

\* What requests.post / requests.get gives: the call raises ConnectionError,
\* or yields a response with a status, whose X-Subject-Token header and JSON
\* `projects` key may be missing.
NoResponse == [net |-> "unused", status |-> 0, token |-> FALSE,
               has_projects |-> FALSE, projects |-> << >>]

Projects == [id : TenancyIds, enabled : BOOLEAN]

ProjectLists ==
    { l \in UNION { [1..n -> Projects] : n \in 0..MaxProjects } :
        \A i, j \in 1..Len(l) : i # j => l[i].id # l[j].id }

ResponseStatuses == { 200, 201 } \cup HttpStatuses

TokenResponses ==
    { [NoResponse EXCEPT !.net = "ConnectionError"] }
        \cup { [NoResponse EXCEPT !.net = "ok", !.status = st, !.token = tk] :
                 st \in ResponseStatuses, tk \in BOOLEAN }

ProjectResponses ==
    { [NoResponse EXCEPT !.net = "ConnectionError"] }
        \cup { [NoResponse EXCEPT !.net = "ok", !.status = st] : st \in HttpStatuses }
        \cup { [NoResponse EXCEPT !.net = "ok", !.status = 200] }
        \cup { [NoResponse EXCEPT !.net = "ok", !.status = 200,
                                  !.has_projects = TRUE, !.projects = l] :
                 l \in ProjectLists }

\* Response.raise_for_status() raises HTTPError for a 4xx or 5xx status.
RaisesForStatus(res) == res.status >= 400 /\ res.status < 600

NoCall ==
    [op |-> "none", arg |-> "-", id |-> "-", response |-> NoResponse,
     failure |-> NoFailure, reached |-> NoFailure, step |-> 0,
     tenancies |-> << >>, outcome |-> Returned("-")]

\* Provider.authenticate: what the caller gets when the token request ends
\* as `res`.  requests.post is called before the try block.
authenticate(res) ==
    IF res.net = "ConnectionError" THEN Raised("requests.ConnectionError")
    ELSE IF RaisesForStatus(res) THEN
        IF res.status = 401 THEN Raised("AuthenticationError")
        ELSE Raised("CommunicationError")
    ELSE IF res.token THEN Returned("UnscopedSession")
    ELSE Raised("CommunicationError")

\* OpenStackFormAuthenticator.authenticate: the token, or None.
form_authenticate(res) ==
    IF res.net = "ConnectionError" THEN Raised("requests.ConnectionError")
    ELSE IF res.status = 201 THEN
        IF res.token THEN Returned("token") ELSE Raised("KeyError")
    ELSE IF res.status \in {401, 404} THEN Returned("None")
    ELSE IF RaisesForStatus(res) THEN Raised("requests.HTTPError")
    ELSE Returned("None")

\* A mutation of EnabledTenancies: disabled projects are listed too.
AllTenancies(projects) == [i \in 1..Len(projects) |-> projects[i].id]

\* dto.Tenancy(p['id'], p['name']) for the enabled projects, in response order.
RECURSIVE EnabledTenancies(_)
EnabledTenancies(projects) ==
    IF projects = << >> THEN << >>
    ELSE IF Head(projects).enabled
         THEN << Head(projects).id >> \o EnabledTenancies(Tail(projects))
         ELSE EnabledTenancies(Tail(projects))

\* UnscopedSession.tenancies: the outcome, and the tenancies returned.
\* requests.get is called before the try block.
tenancies(res) ==
    IF res.net = "ConnectionError" THEN Raised("requests.ConnectionError")
    ELSE IF RaisesForStatus(res) THEN
        IF res.status = 401 THEN Raised("AuthenticationError")
        ELSE IF res.status = 403 THEN Raised("PermissionDeniedError")
        ELSE Raised("CommunicationError")
    ELSE IF res.has_projects THEN Returned("tenancies")
    ELSE Raised("CommunicationError")

tenancies_result(res) ==
    IF tenancies(res).kind = "return" THEN EnabledTenancies(res.projects) ELSE << >>

Authenticate ==
    /\ call = NoCall
    /\ \E res \in TokenResponses :
         call' = [NoCall EXCEPT !.op = "authenticate", !.response = res,
                                !.outcome = authenticate(res)]
    /\ UNCHANGED << cacheVars, volVars, otherVars >>

FormAuthenticate ==
    /\ call = NoCall
    /\ \E res \in TokenResponses :
         call' = [NoCall EXCEPT !.op = "form_authenticate", !.response = res,
                                !.outcome = form_authenticate(res)]
    /\ UNCHANGED << cacheVars, volVars, otherVars >>

Tenancies ==
    /\ call = NoCall
    /\ \E res \in ProjectResponses :
         call' = [NoCall EXCEPT !.op = "tenancies", !.response = res,
                                !.tenancies = tenancies_result(res),
                                !.outcome = tenancies(res)]
    /\ UNCHANGED << cacheVars, volVars, otherVars >>

\* The result of an operation whose wrapped function ended with SDK failure f
\* (or, with NoFailure, returned v): the decorator translates the failure.
Translated(f, v) == IF f = NoFailure THEN Returned(v) ELSE convert_sdk_exceptions(f)

\* isinstance(e, openstack.exceptions.HttpException)
IsHttpException(f) == f.type \in {"HttpException", "ResourceNotFound"}

\* UnscopedSession.scoped_session from `conf = ...` on, for the tenancy `id`:
\* f is how building the connection ended.  `reached` is the failure that
\* propagates to the decorator.
scoping_outcome(f, id) ==
    IF IsHttpException(f) /\ f.status \in {401, 403}
    THEN [reached |-> NoFailure, outcome |-> Raised("ObjectNotFoundError")]
    ELSE [reached |-> f, outcome |-> Translated(f, id)]

\* UnscopedSession.scoped_session(tenancy): `kind` says whether a dto.Tenancy
\* or a raw id was given.  With an id, tenancies() is called first (its
\* request ends as res) and its errors pass through the decorator; `attempt`
\* says whether the scoping attempt was made.
scoped_session(kind, id, res, f) ==
    IF kind = "id" /\ tenancies(res).kind = "raise"
    THEN [attempt |-> FALSE, reached |-> NoFailure, outcome |-> tenancies(res)]
    ELSE IF kind = "id" /\ \A i \in 1..Len(tenancies_result(res)) :
                              tenancies_result(res)[i] # id
    THEN [attempt |-> FALSE, reached |-> NoFailure,
          outcome |-> Raised("ObjectNotFoundError")]
    ELSE [attempt |-> TRUE, reached |-> scoping_outcome(f, id).reached,
          outcome |-> scoping_outcome(f, id).outcome]

ScopedSessionOp ==
    /\ call = NoCall
    /\ \E kind \in {"dto", "id"}, id \in TenancyIds \cup {UnknownTenancyId},
          res \in ProjectResponses \cup {NoResponse},
          f \in SdkFailures \cup {NoFailure} :
         \* An input the call does not read is left at its placeholder.
         /\ (kind = "dto") <=> (res = NoResponse)
         /\ ~scoped_session(kind, id, res, f).attempt => f = NoFailure
         /\ call' = [NoCall EXCEPT
                       !.op = "scoped_session", !.arg = kind, !.id = id,
                       !.response = res,
                       !.tenancies = IF kind = "id" THEN tenancies_result(res)
                                     ELSE << >>,
                       !.failure = f,
                       !.step = IF scoped_session(kind, id, res, f).attempt
                                THEN 1 ELSE 0,
                       !.reached = scoped_session(kind, id, res, f).reached,
                       !.outcome = scoped_session(kind, id, res, f).outcome]
    /\ UNCHANGED << cacheVars, volVars, otherVars >>

\* ScopedSession.sizes: compute.flavors() ends with f.
Sizes ==
    /\ call = NoCall
    /\ \E f \in SdkFailures \cup {NoFailure} :
         call' = [NoCall EXCEPT !.op = "sizes", !.failure = f, !.step = 1,
                                !.reached = f, !.outcome = Translated(f, "sizes")]
    /\ UNCHANGED << cacheVars, volVars, otherVars >>

\* The backend calls of ScopedSession.quotas, in order: compute.get_limits,
\* session.get_endpoint(network), session.get(quotas), network.ips,
\* session.get_endpoint(volume), session.get(limits).
QuotaSteps == 6

\* ScopedSession.quotas: backend call `step` ends with f (step 0: none fails);
\* the JSON of the network quota and of the volume limits may lack the keys
\* that are read from it.
quotas(step, f, net_keys, vol_keys) ==
    IF step \in 1..3 THEN convert_sdk_exceptions(f)
    ELSE IF ~net_keys THEN Raised("KeyError")
    ELSE IF step \in 4..6 THEN convert_sdk_exceptions(f)
    ELSE IF ~vol_keys THEN Raised("KeyError")
    ELSE Returned("quotas")

Quotas ==
    /\ call = NoCall
    /\ \E step \in 0..QuotaSteps, f \in SdkFailures \cup {NoFailure},
          net_keys \in BOOLEAN, vol_keys \in BOOLEAN :
         /\ (step = 0) <=> (f = NoFailure)
         \* Without the network keys the later calls are never made.
         /\ ~net_keys => step <= 3
         /\ call' = [NoCall EXCEPT
                       !.op = "quotas", !.failure = f, !.step = step,
                       !.arg = IF ~net_keys THEN "no_quota_key"
                               ELSE IF ~vol_keys THEN "no_limits_key" ELSE "-",
                       !.reached = f,
                       !.outcome = quotas(step, f, net_keys, vol_keys)]
    /\ UNCHANGED << cacheVars, volVars, otherVars >>

\* ScopedSession._from_sdk_floatingip: `port` says what the floating IP's
\* port_id is and what network.find_port gives for it:
\*   "unbound"  port_id is None
\*   "found"    find_port returns the port
\*   "missing"  find_port returns None
\*   "failed"   find_port raises f
_from_sdk_floatingip(port, f) ==
    CASE port = "unbound" -> Returned("ExternalIp")
      [] port = "found"   -> Returned("ExternalIp")
      [] port = "missing" -> Raised("AttributeError")
      [] port = "failed"  -> convert_sdk_exceptions(f)

\* ScopedSession.find_external_ip(ip): network.ips(floating_ip_address = ip)
\* raises f (step 1), yields nothing ("absent"), or yields a floating IP.
FindExternalIp ==
    /\ call = NoCall
    /\ \E port \in {"absent", "unbound", "found", "missing", "failed"},
          step \in 0..1, f \in SdkFailures \cup {NoFailure} :
         /\ (f = NoFailure) <=> (step = 0 /\ port # "failed")
         /\ step = 1 => port = "absent"
         /\ call' = [NoCall EXCEPT
                       !.op = "find_external_ip", !.arg = port, !.failure = f,
                       !.step = IF port = "failed" THEN 2 ELSE step,
                       !.reached = f,
                       !.outcome = IF step = 1 THEN convert_sdk_exceptions(f)
                                   ELSE IF port = "absent"
                                        THEN Raised("ObjectNotFoundError")
                                   ELSE _from_sdk_floatingip(port, f)]
    /\ UNCHANGED << cacheVars, volVars, otherVars >>

NextErr ==
    \/ Authenticate
    \/ FormAuthenticate
    \/ Tenancies
    \/ ScopedSessionOp
    \/ Sizes
    \/ Quotas
    \/ FindExternalIp

---------------------------------------------------------------------------
(* Claims checked under SpecErr                                            *)

\* Some stretch of the text, compared letter by letter with either case of
\* each letter of "quota exceeded".
SameLetter(c, d) ==
    \/ c = d
    \/ \E i \in 1..Len(UPPERCASE) : {c, d} = {UPPERCASE[i], LOWERCASE[i]}

MentionsQuotaExceeded(text) ==
    \E start \in 0..Len(text) :
        /\ start + Len(QUOTA_EXCEEDED) <= Len(text)
        /\ \A j \in 1..Len(QUOTA_EXCEEDED) :
               SameLetter(text[start + j], QUOTA_EXCEEDED[j])

\* The decorator translated an HTTP failure of the backend.
TranslatedHttpFailure ==
    /\ call.reached.type \in {"HttpException", "HttpError"}
    /\ call.outcome.kind = "raise"

\* C1: a backend HTTP failure with status 409 is translated to
\* QuotaExceededError when its message contains "quota exceeded" in any
\* letter case and to InvalidOperationError when it does not; one with status
\* 403 is translated to QuotaExceededError when the message contains the
\* phrase and to PermissionDeniedError when it does not.
C1_QuotaTranslation ==
    TranslatedHttpFailure /\ call.reached.status \in {403, 409} =>
        call.outcome.err =
            IF MentionsQuotaExceeded(call.reached.msg) THEN "QuotaExceededError"
            ELSE IF call.reached.status = 409 THEN "InvalidOperationError"
            ELSE "PermissionDeniedError"

\* C1 witness: a 409 whose message spells the phrase in capitals came out as
\* QuotaExceededError.
C1_Witness ==
    /\ TranslatedHttpFailure
    /\ call.reached.status = 409
    /\ call.reached.msg = MsgQuotaUpper
    /\ call.outcome.err = "QuotaExceededError"

\* The scoping attempt of scoped_session was made and the backend rejected
\* it with a failure that carries an HTTP status.
ScopingRejected ==
    /\ call.op = "scoped_session"
    /\ call.step = 1
    /\ call.failure.type \in {"HttpException", "HttpError"}

\* C2: when the backend rejects the scoping attempt of scoped_session with
\* status 401 or 403, carried by an SDK HTTP failure or by a raw
\* identity-client HTTP failure, the caller gets ObjectNotFoundError.
C2_ScopingRejectionHidden ==
    ScopingRejected /\ call.failure.status \in {401, 403} =>
        call.outcome = Raised("ObjectNotFoundError")

\* C3: authenticate raises AuthenticationError when the identity service
\* answers the token request with 401 or with 404.
C3_RejectedCredentials ==
    /\ call.op = "authenticate"
    /\ call.response.net = "ok"
    /\ call.response.status \in {401, 404}
    => call.outcome = Raised("AuthenticationError")

\* C4: a transport failure of the token request of authenticate, or of the
\* project-list request of tenancies, reaches the caller as
\* CommunicationError.
C4_TransportFailure ==
    /\ call.op \in {"authenticate", "tenancies"}
    /\ call.response.net = "ConnectionError"
    => call.outcome = Raised("CommunicationError")

\* C5: every operation of Provider, UnscopedSession and ScopedSession either
\* returns or raises a member of the error taxonomy, except find_machine and
\* machines, which raise KeyError for an unmapped power-state code.
C5_ClosedErrorBoundary ==
    call.op \notin {"none", "form_authenticate"} =>
        \/ call.outcome.kind = "return"
        \/ call.outcome.err \in Taxonomy
        \/ call.op \in {"find_machine", "machines"} /\ call.outcome.err = "KeyError"

\* C6: a backend failure that reaches the translator comes out as the one
\* taxonomy member its status determines: 400 BadInputError, 401
\* AuthenticationError, 404 or a resource-not-found failure
\* ObjectNotFoundError, any status other than 400, 401, 403, 404 and 409
\* CommunicationError, and a failure without an HTTP status the generic Error.
C6_StatusClassification ==
    call.reached # NoFailure =>
        /\ call.outcome.kind = "raise"
        /\ call.reached.type = "ResourceNotFound" =>
               call.outcome.err = "ObjectNotFoundError"
        /\ call.reached.type \in {"HttpException", "HttpError"} =>
               /\ call.reached.status = 400 => call.outcome.err = "BadInputError"
               /\ call.reached.status = 401 => call.outcome.err = "AuthenticationError"
               /\ call.reached.status = 404 => call.outcome.err = "ObjectNotFoundError"
               /\ call.reached.status \notin {400, 401, 403, 404, 409} =>
                      call.outcome.err = "CommunicationError"
        /\ call.reached.type \in {"SDKException", "ClientException"} =>
               call.outcome.err = "Error"

\* C6 witness: a raw identity-client 404 came out as ObjectNotFoundError, and
\* the call was not one that found nothing by itself.
C6_Witness ==
    /\ call.reached.type = "HttpError"
    /\ call.reached.status = 404
    /\ call.outcome = Raised("ObjectNotFoundError")

---------------------------------------------------------------------------
(* SpecCache: the memoized lookups of ScopedSession                        *)
(*                                                                         *)
(* find_image, find_size and _tenant_network are wrapped by                *)
(* functools.lru_cache() in the class body: each has one cache for the     *)
(* class, keyed by the call's arguments (self, id), that holds at most     *)
(* maxsize entries and drops the least recently used one when full.        *)

\* maxsize of functools.lru_cache().  Python's default is 128; the model
\* scales it down, with as many keys as it takes to fill the cache.
LruMaxSize == 2

\* Bound: the versions an image of the backend goes through, from 1 on
\* (0: the image is deleted).
MaxVersion == 1

Sessions == { "A", "B" }
ImageIds == { "i1", "i2" }
SizeIds  == { "f1" }
NoId     == "-"

\* The value the backend holds for a flavor and for the tenant network.
Flavor  == 1
Network == 1

\* The entries of a cache, least recently used first.
NoEntries == << >>

\* The position of the entry of (s, id) in the cache, 0 when it has none.
Position(cache, s, id) ==
    IF \E i \in 1..Len(cache) : cache[i].s = s /\ cache[i].id = id
    THEN CHOOSE i \in 1..Len(cache) : cache[i].s = s /\ cache[i].id = id
    ELSE 0

\* The cache without its entry at position i.
Without(cache, i) ==
    [j \in 1..(Len(cache) - 1) |-> IF j < i THEN cache[j] ELSE cache[j + 1]]

\* A call of an lru_cache'd method with the arguments (s, id), where the
\* wrapped function would return `fetched` (0: it raises).  A hit makes the
\* entry the most recently used one; a miss calls the function and stores what
\* it returns, dropping the least recently used entry of a full cache; an
\* exception stores nothing.
lru_cache(cache, s, id, fetched) ==
    LET i == Position(cache, s, id)
    IN  IF i # 0
        THEN [cache |-> Append(Without(cache, i), cache[i]),
              backend |-> FALSE, result |-> cache[i].val]
        ELSE IF fetched = 0
        THEN [cache |-> cache, backend |-> TRUE, result |-> 0]
        ELSE [cache |-> Append(IF Len(cache) >= LruMaxSize THEN Tail(cache)
                               ELSE cache,
                               [s |-> s, id |-> id, val |-> fetched]),
              backend |-> TRUE, result |-> fetched]

\* What the caller of a lookup gets: result 0 stands for the error the
\* lookup raises (ObjectNotFoundError, ImproperlyConfiguredError).
Lookup(op, s, id, r) ==
    [op |-> op, s |-> s, id |-> id, backend |-> r.backend, result |-> r.result,
     prior |-> known[<< op, s, id >>]]

NoLookup ==
    [op |-> "none", s |-> "-", id |-> NoId, backend |-> FALSE, result |-> 0,
     prior |-> 0]

Keys ==
    ({"find_image"} \X Sessions \X ImageIds)
        \cup ({"find_size"} \X Sessions \X SizeIds)
        \cup ({"_tenant_network"} \X Sessions \X {NoId})

\* The first value a lookup returned for a key.
Remember(op, s, id, r) ==
    IF known[<< op, s, id >>] = 0
    THEN [known EXCEPT ![<< op, s, id >>] = r.result]
    ELSE known

InitCache ==
    /\ imageCache = NoEntries
    /\ sizeCache = NoEntries
    /\ netCache = NoEntries
    /\ catalogue = [id \in ImageIds |-> 1]
    /\ lookup = NoLookup
    /\ known = [k \in Keys |-> 0]

\* ScopedSession.find_image(id) on session s.
FindImage(s, id) ==
    LET r == lru_cache(imageCache, s, id, catalogue[id])
    IN  /\ imageCache' = r.cache
        /\ lookup' = Lookup("find_image", s, id, r)
        /\ known' = Remember("find_image", s, id, r)
        /\ UNCHANGED << sizeCache, netCache, catalogue, errVars, volVars, otherVars >>

\* ScopedSession.find_size(id) on session s.
FindSize(s, id) ==
    LET r == lru_cache(sizeCache, s, id, Flavor)
    IN  /\ sizeCache' = r.cache
        /\ lookup' = Lookup("find_size", s, id, r)
        /\ known' = Remember("find_size", s, id, r)
        /\ UNCHANGED << imageCache, netCache, catalogue, errVars, volVars, otherVars >>

\* ScopedSession._tenant_network() on session s.
TenantNetwork(s) ==
    LET r == lru_cache(netCache, s, NoId, Network)
    IN  /\ netCache' = r.cache
        /\ lookup' = Lookup("_tenant_network", s, NoId, r)
        /\ known' = Remember("_tenant_network", s, NoId, r)
        /\ UNCHANGED << imageCache, sizeCache, catalogue, errVars, volVars, otherVars >>

\* The image service: an image is changed (its next version) or deleted; the
\* id of a deleted image is not used again.
ImageChanges(id) ==
    /\ catalogue[id] # 0
    /\ \E v \in {0, catalogue[id] + 1} :
         /\ v <= MaxVersion
         /\ catalogue' = [catalogue EXCEPT ![id] = v]
    /\ UNCHANGED << imageCache, sizeCache, netCache, lookup, known, errVars, volVars, otherVars >>

NextCache ==
    \/ \E s \in Sessions, id \in ImageIds : FindImage(s, id)
    \/ \E s \in Sessions, id \in SizeIds : FindSize(s, id)
    \/ \E s \in Sessions : TenantNetwork(s)
    \/ \E id \in ImageIds : ImageChanges(id)

\* The project list of the response has an enabled project with this id.
EnabledProject(id) ==
    \E i \in 1..Len(call.response.projects) :
        /\ call.response.projects[i].id = id
        /\ call.response.projects[i].enabled

\* C19: scoped_session with a raw id, once the project list is obtained:
\* an id that is not the id of an enabled project of the list raises
\* ObjectNotFoundError without a scoping attempt, and a session is returned
\* only for the id of an enabled project of the list.
C19_IdResolvedAgainstEnabled ==
    call.op = "scoped_session" /\ call.arg = "id" =>
        /\ /\ call.response.net = "ok"
           /\ call.response.status = 200
           /\ call.response.has_projects
           /\ ~EnabledProject(call.id)
           => /\ call.outcome.kind = "raise"
              /\ call.outcome.err = "ObjectNotFoundError"
              /\ call.step = 0
        /\ call.outcome.kind = "return" =>
               /\ EnabledProject(call.id)
               /\ call.outcome.val = call.id

\* C19 witness: the id of a project the list has, but disabled, was refused
\* with ObjectNotFoundError and no scoping attempt.
C19_Witness ==
    /\ call.op = "scoped_session"
    /\ call.arg = "id"
    /\ \E i \in 1..Len(call.response.projects) :
           /\ call.response.projects[i].id = call.id
           /\ ~call.response.projects[i].enabled
    /\ call.outcome.kind = "raise"
    /\ call.outcome.err = "ObjectNotFoundError"
    /\ call.step = 0

---------------------------------------------------------------------------
(* Claims checked under SpecCache                                          *)

\* C7: once find_image, find_size or the tenant-network discovery has
\* succeeded on a session, every later call with the same argument on that
\* session returns the same value and issues no backend request.
C7_MemoizedForever ==
    lookup.prior # 0 => lookup.result = lookup.prior /\ ~lookup.backend

\* The memoized entries of session s, over the three caches.
EntriesOf(s) ==
    { << "find_image", imageCache[i] >> :
        i \in { j \in 1..Len(imageCache) : imageCache[j].s = s } }
      \cup { << "find_size", sizeCache[i] >> :
        i \in { j \in 1..Len(sizeCache) : sizeCache[j].s = s } }
      \cup { << "_tenant_network", netCache[i] >> :
        i \in { j \in 1..Len(netCache) : netCache[j].s = s } }

\* C8: a lookup on one session neither changes nor removes a memoized entry
\* of another session.
C8_SessionIsolation ==
    [][ \A s \in Sessions :
          (lookup' # lookup /\ lookup'.s # s) => EntriesOf(s)' = EntriesOf(s) ]_vars

---------------------------------------------------------------------------
(* SpecVol: the volume operations of ScopedSession                         *)

VolumeIds  == { "v1" }
MachineIds == { "m1", "m2" }
NoMachine  == "-"

ST_creating         == << "c", "r", "e", "a", "t", "i", "n", "g" >>
ST_available        == << "a", "v", "a", "i", "l", "a", "b", "l", "e" >>
ST_attaching        == << "a", "t", "t", "a", "c", "h", "i", "n", "g" >>
ST_detaching        == << "d", "e", "t", "a", "c", "h", "i", "n", "g" >>
ST_in_use           == << "i", "n", "-", "u", "s", "e" >>
ST_deleting         == << "d", "e", "l", "e", "t", "i", "n", "g" >>
ST_error            == << "e", "r", "r", "o", "r" >>
ST_error_deleting   ==
    << "e", "r", "r", "o", "r", "_", "d", "e", "l", "e", "t", "i", "n", "g" >>
ST_error_backing_up ==
    << "e", "r", "r", "o", "r", "_", "b", "a", "c", "k", "i", "n", "g", "-", "u", "p" >>
ST_error_restoring  ==
    << "e", "r", "r", "o", "r", "_", "r", "e", "s", "t", "o", "r", "i", "n", "g" >>
ST_error_extending  ==
    << "e", "r", "r", "o", "r", "_", "e", "x", "t", "e", "n", "d", "i", "n", "g" >>

\* ScopedSession._VOLUME_STATUSES: backend status -> dto.Volume.Status.
_VOLUME_STATUSES ==
    << << ST_creating, "CREATING" >>,
       << ST_available, "AVAILABLE" >>,
       << ST_attaching, "ATTACHING" >>,
       << ST_detaching, "DETACHING" >>,
       << ST_in_use, "IN_USE" >>,
       << ST_deleting, "DELETING" >>,
       << ST_error, "ERROR" >>,
       << ST_error_deleting, "ERROR" >>,
       << ST_error_backing_up, "ERROR" >>,
       << ST_error_restoring, "ERROR" >>,
       << ST_error_extending, "ERROR" >> >>

\* _VOLUME_STATUSES.get(sdk_volume.status.lower(), dto.Volume.Status.OTHER)
VolumeStatus(status) ==
    IF \E k \in 1..Len(_VOLUME_STATUSES) : _VOLUME_STATUSES[k][1] = Lower(status)
    THEN _VOLUME_STATUSES[
             CHOOSE k \in 1..Len(_VOLUME_STATUSES) :
                 _VOLUME_STATUSES[k][1] = Lower(status)][2]
    ELSE "OTHER"

\* The statuses the backend of the model reports for a volume.
BackendStatuses ==
    { ST_available, ST_attaching, ST_in_use, ST_detaching, ST_deleting,
      ST_error, ST_error_deleting }

\* VolumeStatus, tabulated over the statuses the backend reports.
StatusOf == [status \in BackendStatuses |-> VolumeStatus(status)]

\* A dto.Volume (id, status, machine_id); NoDto stands for None.
NoDto == [id |-> "-", status |-> "-", machine_id |-> NoMachine]

VReturned(dto) == [kind |-> "return", err |-> "-", vol |-> dto]
VRaised(e)     == [kind |-> "raise", err |-> e, vol |-> NoDto]

\* ScopedSession._from_sdk_volume: the attachment is the first of the list.
_from_sdk_volume(id, sdk_volume) ==
    [id |-> id,
     status |-> StatusOf[sdk_volume.status],
     machine_id |-> IF sdk_volume.attachments = << >> THEN NoMachine
                    ELSE sdk_volume.attachments[1]]

\* The failure of a backend call for a volume that is gone, and of one the
\* backend refuses in the volume's state.
GoneFailure    == [type |-> "ResourceNotFound", status |-> 404, msg |-> MsgEmpty]
RefusedFailure == [type |-> "HttpException", status |-> 400, msg |-> MsgEmpty]

\* What the decorator makes of the two.
GoneError    == convert_sdk_exceptions(GoneFailure).err
RefusedError == convert_sdk_exceptions(RefusedFailure).err

\* ScopedSession.find_volume(id) against the backend state vols.
find_volume(vols, id) ==
    IF vols[id].exists THEN VReturned(_from_sdk_volume(id, vols[id]))
    ELSE VRaised(GoneError)

\* `volume if isinstance(volume, dto.Volume) else self.find_volume(volume)`
resolve_volume(vols, kind, v) ==
    IF kind = "dto" THEN VReturned(v) ELSE find_volume(vols, v)

\* The block-storage and compute services answering a request of the
\* provider: the failure (NoFailure: accepted) and the state they leave.
\* `fast` says that the service finishes the work before the provider
\* fetches the volume again.
backend_delete(vols, id, fast) ==
    IF ~vols[id].exists THEN [failure |-> GoneFailure, vols |-> vols]
    ELSE IF vols[id].status \in {ST_available, ST_error, ST_error_deleting}
            /\ vols[id].attachments = << >>
    THEN [failure |-> NoFailure,
          vols |-> IF fast THEN [vols EXCEPT ![id].exists = FALSE,
                                             ![id].status = ST_deleting]
                   ELSE [vols EXCEPT ![id].status = ST_deleting]]
    ELSE [failure |-> RefusedFailure, vols |-> vols]

backend_attach(vols, id, machine, fast) ==
    IF ~vols[id].exists THEN [failure |-> GoneFailure, vols |-> vols]
    ELSE IF vols[id].status = ST_available
    THEN [failure |-> NoFailure,
          vols |-> IF fast THEN [vols EXCEPT ![id].status = ST_in_use,
                                             ![id].attachments = << machine >>]
                   ELSE [vols EXCEPT ![id].status = ST_attaching,
                                     ![id].target = machine]]
    ELSE [failure |-> RefusedFailure, vols |-> vols]

backend_detach(vols, id, machine, fast) ==
    IF ~vols[id].exists THEN [failure |-> GoneFailure, vols |-> vols]
    ELSE IF vols[id].status = ST_in_use /\ vols[id].attachments = << machine >>
    THEN [failure |-> NoFailure,
          vols |-> IF fast THEN [vols EXCEPT ![id].status = ST_available,
                                             ![id].attachments = << >>]
                   ELSE [vols EXCEPT ![id].status = ST_detaching]]
    ELSE [failure |-> RefusedFailure, vols |-> vols]

\* What an operation did: the volume it worked on, the request it issued to
\* the backend ("none" when it issued none), the backend state it leaves and
\* what the caller gets.
Did(resolved, issued, vols, outcome) ==
    [resolved |-> resolved, issued |-> issued, vols |-> vols, outcome |-> outcome]

\* After a request the backend accepted: the volume is fetched again.
Refetched(resolved, issued, b) ==
    IF b.failure # NoFailure
    THEN Did(resolved, issued, b.vols,
             VRaised(IF b.failure = GoneFailure THEN GoneError ELSE RefusedError))
    ELSE Did(resolved, issued, b.vols, find_volume(b.vols, resolved.id))

\* A mutation of delete_volume: a volume that is in use may be deleted too.
delete_volume_in_use(vols, kind, v, fast) ==
    LET r == resolve_volume(vols, kind, v)
    IN  IF r.kind = "raise" THEN Did(NoDto, "none", vols, r)
        ELSE IF r.vol.status \notin {"AVAILABLE", "ERROR", "IN_USE"}
        THEN Did(r.vol, "none", vols, VRaised("InvalidOperationError"))
        ELSE LET d == Refetched(r.vol, "delete", backend_delete(vols, r.vol.id, fast))
             IN  IF d.outcome = VRaised("ObjectNotFoundError")
                 THEN [d EXCEPT !.outcome = VReturned(NoDto)]
                 ELSE d

\* ScopedSession.delete_volume(volume)
delete_volume(vols, kind, v, fast) ==
    LET r == resolve_volume(vols, kind, v)
    IN  IF r.kind = "raise" THEN Did(NoDto, "none", vols, r)
        ELSE IF r.vol.status \notin {"AVAILABLE", "ERROR"}
        THEN Did(r.vol, "none", vols, VRaised("InvalidOperationError"))
        ELSE LET b == backend_delete(vols, r.vol.id, fast)
             IN  IF b.failure # NoFailure
                 THEN Did(r.vol, "delete", b.vols,
                          VRaised(IF b.failure = GoneFailure THEN GoneError
                                  ELSE RefusedError))
                 ELSE IF find_volume(b.vols, r.vol.id) = VRaised("ObjectNotFoundError")
                 THEN Did(r.vol, "delete", b.vols, VReturned(NoDto))
                 ELSE Did(r.vol, "delete", b.vols, find_volume(b.vols, r.vol.id))

\* A mutation of attach_volume: the status is checked before the attachment.
attach_volume_status_first(vols, kind, v, machine, fast) ==
    LET r == resolve_volume(vols, kind, v)
    IN  IF r.kind = "raise" THEN Did(NoDto, "none", vols, r)
        ELSE IF r.vol.status # "AVAILABLE"
        THEN Did(r.vol, "none", vols, VRaised("InvalidOperationError"))
        ELSE IF r.vol.machine_id = machine
        THEN Did(r.vol, "none", vols, VReturned(r.vol))
        ELSE Refetched(r.vol, "attach", backend_attach(vols, r.vol.id, machine, fast))

\* ScopedSession.attach_volume(volume, machine)
attach_volume(vols, kind, v, machine, fast) ==
    LET r == resolve_volume(vols, kind, v)
    IN  IF r.kind = "raise" THEN Did(NoDto, "none", vols, r)
        ELSE IF r.vol.machine_id = machine
        THEN Did(r.vol, "none", vols, VReturned(r.vol))
        ELSE IF r.vol.status # "AVAILABLE"
        THEN Did(r.vol, "none", vols, VRaised("InvalidOperationError"))
        ELSE Refetched(r.vol, "attach", backend_attach(vols, r.vol.id, machine, fast))

\* A mutation of detach_volume: the detachment is requested whether or not
\* the volume has an attachment.
detach_volume_unchecked(vols, kind, v, fast) ==
    LET r == resolve_volume(vols, kind, v)
    IN  IF r.kind = "raise" THEN Did(NoDto, "none", vols, r)
        ELSE Refetched(r.vol, "detach",
                       backend_detach(vols, r.vol.id, r.vol.machine_id, fast))

\* ScopedSession.detach_volume(volume)
detach_volume(vols, kind, v, fast) ==
    LET r == resolve_volume(vols, kind, v)
    IN  IF r.kind = "raise" THEN Did(NoDto, "none", vols, r)
        ELSE IF r.vol.machine_id = NoMachine
        THEN Did(r.vol, "none", vols, VReturned(r.vol))
        ELSE Refetched(r.vol, "detach",
                       backend_detach(vols, r.vol.id, r.vol.machine_id, fast))

\* What the backend reports for the volume when an operation starts.
Current(vols, id) ==
    IF vols[id].exists THEN StatusOf[vols[id].status] ELSE "GONE"

\* The machine the backend reports the volume attached to at that time.
Attached(vols, id) ==
    IF vols[id].exists /\ vols[id].attachments # << >>
    THEN vols[id].attachments[1] ELSE NoMachine

NoVCall ==
    [op |-> "none", kind |-> "-", id |-> "-", machine |-> NoMachine,
     resolved |-> NoDto, issued |-> "none", outcome |-> VReturned(NoDto),
     current |-> "-", attached |-> NoMachine, changed |-> FALSE,
     repeat |-> FALSE, same |-> FALSE]

\* The record of a call op(volume, machine) that did d.  `repeat` says that
\* the call before it was the same call and returned; `same`, that both
\* calls ended alike.
VCall(op, kind, id, machine, d) ==
    [op |-> op, kind |-> kind, id |-> id, machine |-> machine,
     resolved |-> d.resolved, issued |-> d.issued, outcome |-> d.outcome,
     current |-> Current(volumes, id),
     attached |-> Attached(volumes, id),
     changed |-> d.vols # volumes,
     repeat |-> /\ vcall.op = op
                /\ vcall.kind = kind
                /\ vcall.id = id
                /\ vcall.machine = machine
                /\ vcall.outcome.kind = "return",
     same |-> d.outcome = vcall.outcome]

\* The volume argument of a call: an id, or the dto.Volume the caller holds.
VolumeArgs ==
    { [kind |-> "id", id |-> v, arg |-> v] : v \in VolumeIds }
        \cup { [kind |-> "dto", id |-> held.id, arg |-> held] : x \in {held} \ {NoDto} }

InitVol ==
    /\ volumes = [v \in VolumeIds |->
                    [exists |-> TRUE, status |-> ST_available,
                     attachments |-> << >>, target |-> NoMachine]]
    /\ held = NoDto
    /\ vcall = NoVCall

\* find_volume(id); the caller keeps the dto.Volume it returns.
FindVolume ==
    /\ \E v \in VolumeIds :
         \E r \in { find_volume(volumes, v) } :
             /\ vcall' = VCall("find_volume", "id", v, NoMachine,
                               Did(r.vol, "none", volumes, r))
             /\ held' = IF r.kind = "return" THEN r.vol ELSE held
    /\ UNCHANGED << volumes, errVars, cacheVars, otherVars >>

DeleteVolume ==
    /\ \E a \in VolumeArgs, fast \in BOOLEAN :
         \E d \in { delete_volume(volumes, a.kind, a.arg, fast) } :
             /\ vcall' = VCall("delete_volume", a.kind, a.id, NoMachine, d)
             /\ volumes' = d.vols
    /\ UNCHANGED << held, errVars, cacheVars, otherVars >>

AttachVolume ==
    /\ \E a \in VolumeArgs, m \in MachineIds, fast \in BOOLEAN :
         \E d \in { attach_volume(volumes, a.kind, a.arg, m, fast) } :
             /\ vcall' = VCall("attach_volume", a.kind, a.id, m, d)
             /\ volumes' = d.vols
    /\ UNCHANGED << held, errVars, cacheVars, otherVars >>

DetachVolume ==
    /\ \E a \in VolumeArgs, fast \in BOOLEAN :
         \E d \in { detach_volume(volumes, a.kind, a.arg, fast) } :
             /\ vcall' = VCall("detach_volume", a.kind, a.id, NoMachine, d)
             /\ volumes' = d.vols
    /\ UNCHANGED << held, errVars, cacheVars, otherVars >>

\* The backend finishes the work a request started.
BackendFinishes ==
    /\ \E v \in VolumeIds :
         /\ volumes[v].exists
         /\ \/ /\ volumes[v].status = ST_attaching
               /\ volumes' = [volumes EXCEPT
                                ![v].status = ST_in_use,
                                ![v].attachments = << volumes[v].target >>]
            \/ /\ volumes[v].status = ST_detaching
               /\ volumes' = [volumes EXCEPT ![v].status = ST_available,
                                             ![v].attachments = << >>]
            \/ /\ volumes[v].status = ST_deleting
               /\ volumes' = [volumes EXCEPT ![v].exists = FALSE]
    /\ UNCHANGED << held, vcall, errVars, cacheVars, otherVars >>

\* The backend gives up the work a request started, or the volume fails.
BackendFails ==
    /\ \E v \in VolumeIds :
         /\ volumes[v].exists
         /\ \/ /\ volumes[v].status = ST_attaching
               /\ volumes' = [volumes EXCEPT ![v].status = ST_available]
            \/ /\ volumes[v].status = ST_detaching
               /\ volumes' = [volumes EXCEPT ![v].status = ST_in_use]
            \/ /\ volumes[v].status = ST_deleting
               /\ volumes' = [volumes EXCEPT ![v].status = ST_error_deleting]
            \/ /\ volumes[v].status \in {ST_available, ST_in_use}
               /\ volumes' = [volumes EXCEPT ![v].status = ST_error]
    /\ UNCHANGED << held, vcall, errVars, cacheVars, otherVars >>

NextVol ==
    \/ FindVolume
    \/ DeleteVolume
    \/ AttachVolume
    \/ DetachVolume
    \/ BackendFinishes
    \/ BackendFails

---------------------------------------------------------------------------
(* SpecSrv: building a dto.Machine, converting a volume status             *)

\* Bound: the largest power-state code the compute service reports.
MaxPowerState == 8

\* Bound: how many servers compute._list yields for machines().
MaxServers == 2

\* ScopedSession._POWER_STATES
_POWER_STATES ==
    (0 :> "Unknown") @@ (1 :> "Running") @@ (3 :> "Paused")
        @@ (4 :> "Shut down") @@ (6 :> "Crashed") @@ (7 :> "Suspended")

\* A mutation of the power-state lookup: an unmapped code reads as Unknown.
PowerStateOrUnknown(code) ==
    IF code \in DOMAIN _POWER_STATES THEN Returned(_POWER_STATES[code])
    ELSE Returned("Unknown")

\* self._POWER_STATES[sdk_server.power_state]
PowerState(code) ==
    IF code \in DOMAIN _POWER_STATES THEN Returned(_POWER_STATES[code])
    ELSE Raised("KeyError")

DIGITS == << "0", "1", "2", "3", "4", "5", "6", "7", "8", "9" >>

DigitValue(c) == (CHOOSE k \in 1..Len(DIGITS) : DIGITS[k] = c) - 1

\* int(s) for a str s: defined for a non-empty run of decimal digits.
IsInt(s) ==
    /\ s # << >>
    /\ \A i \in 1..Len(s) : \E k \in 1..Len(DIGITS) : DIGITS[k] = s[i]

RECURSIVE IntOf(_)
IntOf(s) ==
    IF s = << >> THEN 0
    ELSE 10 * IntOf(SubSeq(s, 1, Len(s) - 1)) + DigitValue(s[Len(s)])

\* bool(int(s))
BoolOfInt(s) == IntOf(s) # 0

\* The values of a jasmin_nat_allowed property, as text.
FlagTexts == { << "0" >>, << "1" >>, << "0", "0" >>, << "1", "0" >>,
               << "y", "e", "s" >> }

\* sdk_server.metadata of a server: None ("none"), without the key
\* jasmin_nat_allowed ("absent"), or with a text for it ("flag").
NoFlag == { "none", "absent" }

\* What self.find_image(sdk_server.image['id']) ends with: the image service
\* has the image, whose jasmin_nat_allowed property is unset (the empty text)
\* or a text, or the request fails with an SDK failure.
ImageFound(flag) == [found |-> TRUE, flag |-> flag, failure |-> NoFailure]
ImageFailed(f)   == [found |-> FALSE, flag |-> << >>, failure |-> f]

ImageLookups ==
    { ImageFound(flag) : flag \in { << >>, << "0" >>, << "1" >> } }
        \cup { ImageFailed(f) :
                 f \in { [type |-> "ResourceNotFound", status |-> 404, msg |-> MsgEmpty],
                         [type |-> "HttpException", status |-> 404, msg |-> MsgEmpty],
                         [type |-> "HttpException", status |-> 500, msg |-> MsgEmpty] } }

\* ScopedSession._from_sdk_image: bool(int(sdk_image.jasmin_nat_allowed or '1'))
ImageNatAllowed(flag) == IF flag = << >> THEN BoolOfInt(<< "1" >>) ELSE BoolOfInt(flag)

\* ScopedSession.find_image(id) as the caller sees it (the decorator
\* translates the failure): the dto.Image's nat_allowed, or the error.
find_image_nat(lookup_) ==
    IF lookup_.found THEN Returned(ImageNatAllowed(lookup_.flag))
    ELSE convert_sdk_exceptions(lookup_.failure)

\* A server as the compute service describes it: the NAT flag of its
\* metadata, whether it has an image (a server booted from a volume has
\* none) and its power-state code.
SdkServers ==
    [metadata : NoFlag, flag : { << >> }, has_image : BOOLEAN,
     power_state : 0..MaxPowerState]
        \cup [metadata : { "flag" }, flag : FlagTexts, has_image : BOOLEAN,
              power_state : 0..MaxPowerState]

\* What self._tenant_network() gives: the network, ImproperlyConfiguredError
\* when the router has no port, or None when find_network finds nothing.
TenantNetworks == { "found", "no_port", "none" }

\* The result of _from_sdk_server: what it returns or raises, and whether it
\* called find_image.
Built(outcome, consulted) == [outcome |-> outcome, consulted |-> consulted]

\* A mutation of nat_allowed: the image is asked first, the metadata only
\* when the image is gone.
nat_allowed_image_first(sdk_server, lookup_) ==
    IF sdk_server.has_image /\ find_image_nat(lookup_).kind = "return"
    THEN Built(find_image_nat(lookup_), TRUE)
    ELSE IF sdk_server.metadata \notin NoFlag /\ IsInt(sdk_server.flag)
    THEN Built(Returned(BoolOfInt(sdk_server.flag)), TRUE)
    ELSE Built(Returned(TRUE), TRUE)

\* Lines 508-517 of _from_sdk_server: the NAT-allowed flag of the machine.
nat_allowed(sdk_server, lookup_) ==
    IF sdk_server.metadata \notin NoFlag
    THEN IF IsInt(sdk_server.flag)
         THEN Built(Returned(BoolOfInt(sdk_server.flag)), FALSE)
         ELSE Built(Raised("ValueError"), FALSE)
    ELSE IF ~sdk_server.has_image THEN Built(Raised("TypeError"), FALSE)
    ELSE IF find_image_nat(lookup_).kind = "return"
    THEN Built(find_image_nat(lookup_), TRUE)
    ELSE IF find_image_nat(lookup_).err = "ObjectNotFoundError"
    THEN Built(Returned(TRUE), TRUE)
    ELSE Built(find_image_nat(lookup_), TRUE)


\* ScopedSession._from_sdk_server(sdk_server); `lookup_` and `network` are
\* what find_image and _tenant_network give when it calls them.
_from_sdk_server(sdk_server, lookup_, network) ==
    LET n == nat_allowed(sdk_server, lookup_)
    IN  IF n.outcome.kind = "raise" THEN n
        ELSE IF network = "no_port"
        THEN Built(Raised("ImproperlyConfiguredError"), n.consulted)
        ELSE IF ~sdk_server.has_image THEN Built(Raised("TypeError"), n.consulted)
        ELSE IF PowerState(sdk_server.power_state).kind = "raise"
        THEN Built(PowerState(sdk_server.power_state), n.consulted)
        ELSE IF network = "none" THEN Built(Raised("AttributeError"), n.consulted)
        ELSE Built(Returned([nat_allowed |-> n.outcome.val,
                             power_state |-> PowerState(sdk_server.power_state).val]),
                   n.consulted)

\* ScopedSession.find_machine(id), once compute._get has given sdk_server:
\* the decorator lets every error of _from_sdk_server through.
find_machine(sdk_server, lookup_, network) ==
    _from_sdk_server(sdk_server, lookup_, network)

\* ScopedSession.machines(): tuple(self._from_sdk_server(s) for s in servers)
RECURSIVE machines(_, _, _)
machines(sdk_servers, lookup_, network) ==
    IF sdk_servers = << >> THEN Built(Returned(<< >>), FALSE)
    ELSE LET first == _from_sdk_server(Head(sdk_servers), lookup_, network)
             rest  == machines(Tail(sdk_servers), lookup_, network)
         IN  IF first.outcome.kind = "raise" THEN first
             ELSE IF rest.outcome.kind = "raise"
             THEN Built(rest.outcome, first.consulted \/ rest.consulted)
             ELSE Built(Returned(<< first.outcome.val >> \o rest.outcome.val),
                        first.consulted \/ rest.consulted)

\* Volume statuses the block-storage service may report, beyond the keys of
\* _VOLUME_STATUSES: other letter cases, and statuses the table lacks.
ST_AVAILABLE      == << "A", "V", "A", "I", "L", "A", "B", "L", "E" >>
ST_In_Use         == << "I", "n", "-", "U", "s", "e" >>
ST_ERROR_DELETING == << "E", "R", "R", "O", "R", "_", "D", "E", "L", "E", "T", "I", "N", "G" >>
ST_reserved       == << "r", "e", "s", "e", "r", "v", "e", "d" >>
ST_maintenance    == << "m", "a", "i", "n", "t", "e", "n", "a", "n", "c", "e" >>
ST_error_managing == << "e", "r", "r", "o", "r", "_", "m", "a", "n", "a", "g", "i", "n", "g" >>
ST_errors         == << "e", "r", "r", "o", "r", "s" >>

StatusInputs ==
    { _VOLUME_STATUSES[k][1] : k \in 1..Len(_VOLUME_STATUSES) }
        \cup { ST_AVAILABLE, ST_In_Use, ST_ERROR_DELETING, ST_reserved,
               ST_maintenance, ST_error_managing, ST_errors, << >> }

NoBuilt ==
    [op |-> "none", servers |-> << >>, image |-> ImageFound(<< >>),
     network |-> "-", status |-> << >>, outcome |-> Returned("-"),
     consulted |-> FALSE]

InitSrv == built = NoBuilt

FindMachine ==
    /\ built = NoBuilt
    /\ \E sdk_server \in SdkServers, l \in ImageLookups, n \in TenantNetworks :
         \E b \in { find_machine(sdk_server, l, n) } :
             built' = [NoBuilt EXCEPT !.op = "find_machine",
                                      !.servers = << sdk_server >>,
                                      !.image = l, !.network = n,
                                      !.outcome = b.outcome,
                                      !.consulted = b.consulted]
    /\ UNCHANGED exceptSrv

\* The servers machines() is run on: without a NAT flag in the metadata, or
\* with the flag "0".
ListedServers ==
    { l \in UNION { [1..k -> SdkServers] : k \in 0..MaxServers } :
        \A i \in 1..Len(l) :
            /\ l[i].has_image
            /\ l[i].metadata = "absent" \/ l[i].flag = << "0" >> }

Machines ==
    /\ built = NoBuilt
    /\ \E sdk_servers \in ListedServers, l \in ImageLookups, n \in TenantNetworks :
         \E b \in { machines(sdk_servers, l, n) } :
             built' = [NoBuilt EXCEPT !.op = "machines", !.servers = sdk_servers,
                                      !.image = l, !.network = n,
                                      !.outcome = b.outcome,
                                      !.consulted = b.consulted]
    /\ UNCHANGED exceptSrv

\* _from_sdk_volume, lines 790-793: the status of the dto.Volume.
ConvertVolumeStatus ==
    /\ built = NoBuilt
    /\ \E status \in StatusInputs :
         built' = [NoBuilt EXCEPT !.op = "volume_status", !.status = status,
                                  !.outcome = Returned(VolumeStatus(status))]
    /\ UNCHANGED exceptSrv

NextSrv ==
    \/ FindMachine
    \/ Machines
    \/ ConvertVolumeStatus

---------------------------------------------------------------------------
(* SpecQuota: the value of quotas()                                        *)

\* Bound: how many floating IPs network.ips() lists.
MaxFips == 2

\* The numbers a limit or a usage takes.
QuotaValues == { 1, 2 }

\* compute.get_limits().absolute; floating_ips_used is the counter of the
\* compute service that quotas() does not read.
ComputeLimits ==
    [total_cores : QuotaValues, total_cores_used : QuotaValues,
     total_ram : QuotaValues, total_ram_used : QuotaValues,
     instances : QuotaValues, instances_used : QuotaValues,
     floating_ips_used : QuotaValues]

\* The JSON of GET /v2.0/quotas/<tenancy>: with or without quota.floatingip.
NetworkQuotas ==
    { [has_keys |-> FALSE, floatingip |-> 0] }
        \cup [has_keys : { TRUE }, floatingip : QuotaValues]

\* The JSON of GET <volume>/limits: with or without limits.absolute.
VolumeLimits ==
    { [has_keys |-> FALSE, maxTotalVolumeGigabytes |-> 0, totalGigabytesUsed |-> 0,
       maxTotalVolumes |-> 0, totalVolumesUsed |-> 0] }
        \cup [has_keys : { TRUE }, maxTotalVolumeGigabytes : QuotaValues,
              totalGigabytesUsed : QuotaValues, maxTotalVolumes : QuotaValues,
              totalVolumesUsed : QuotaValues]

\* list(self.connection.network.ips()): the floating IPs of the tenancy.
FloatingIpLists == UNION { [1..n -> { "fip" }] : n \in 0..MaxFips }

\* dto.Quota(resource, units, allocated, used); NoUnits stands for None.
NoUnits == "None"

Quota(resource, units, allocated, used) ==
    [resource |-> resource, units |-> units, allocated |-> allocated, used |-> used]

\* A mutation of quotas_list: the usage of external_ips is the counter the
\* compute service reports.
quotas_list_counter(compute_limits, network_quotas, ips, volume_limits) ==
    << Quota("cpus", NoUnits, compute_limits.total_cores,
             compute_limits.total_cores_used),
       Quota("ram", "MB", compute_limits.total_ram, compute_limits.total_ram_used),
       Quota("machines", NoUnits, compute_limits.instances,
             compute_limits.instances_used),
       Quota("external_ips", NoUnits, network_quotas.floatingip,
             compute_limits.floating_ips_used),
       Quota("storage", "GB", volume_limits.maxTotalVolumeGigabytes,
             volume_limits.totalGigabytesUsed),
       Quota("volumes", NoUnits, volume_limits.maxTotalVolumes,
             volume_limits.totalVolumesUsed) >>

\* The list ScopedSession.quotas builds, lines 328-382.
quotas_list(compute_limits, network_quotas, ips, volume_limits) ==
    << Quota("cpus", NoUnits, compute_limits.total_cores,
             compute_limits.total_cores_used),
       Quota("ram", "MB", compute_limits.total_ram, compute_limits.total_ram_used),
       Quota("machines", NoUnits, compute_limits.instances,
             compute_limits.instances_used),
       Quota("external_ips", NoUnits, network_quotas.floatingip, Len(ips)),
       Quota("storage", "GB", volume_limits.maxTotalVolumeGigabytes,
             volume_limits.totalGigabytesUsed),
       Quota("volumes", NoUnits, volume_limits.maxTotalVolumes,
             volume_limits.totalVolumesUsed) >>

NoQuota ==
    [op |-> "none",
     compute_limits |-> [total_cores |-> 0, total_cores_used |-> 0,
                         total_ram |-> 0, total_ram_used |-> 0,
                         instances |-> 0, instances_used |-> 0,
                         floating_ips_used |-> 0],
     network_quotas |-> [has_keys |-> FALSE, floatingip |-> 0],
     ips |-> << >>,
     volume_limits |-> [has_keys |-> FALSE, maxTotalVolumeGigabytes |-> 0,
                        totalGigabytesUsed |-> 0, maxTotalVolumes |-> 0,
                        totalVolumesUsed |-> 0],
     raised |-> "-", result |-> << >>]

InitQuota == quota = NoQuota

\* ScopedSession.quotas() when no backend call fails: it raises KeyError on
\* JSON that lacks the keys it reads, and returns the list otherwise.
QuotasReturns ==
    /\ quota = NoQuota
    /\ \E compute_limits \in ComputeLimits, network_quotas \in NetworkQuotas,
          ips \in FloatingIpLists, volume_limits \in VolumeLimits :
         \E r \in { quotas(0, NoFailure, network_quotas.has_keys,
                           volume_limits.has_keys) } :
             quota' = [op |-> "quotas", compute_limits |-> compute_limits,
                       network_quotas |-> network_quotas, ips |-> ips,
                       volume_limits |-> volume_limits,
                       raised |-> r.err,
                       result |-> IF r.kind = "return"
                                  THEN quotas_list(compute_limits, network_quotas,
                                                   ips, volume_limits)
                                  ELSE << >>]
    /\ UNCHANGED exceptQuota

NextQuota == QuotasReturns

---------------------------------------------------------------------------
(* SpecKey: create_machine and the key-pairs of the compute service        *)

\* self.username of the sessions.
Usernames == { "ann", "ann-b" }

\* base64.b64decode of the payloads of the model: "QQ==" and "QR==" are two
\* encodings of the same byte.
B64Decode == ("QQ==" :> "A") @@ ("QR==" :> "A") @@ ("Qg==" :> "B")

\* hashlib.md5(bytes).hexdigest() of the bytes of the model.
Md5 ==
    ("A" :> "7fc56270e7a70fa81a5935b72eacbe29")
        @@ ("B" :> "9d5ed678fe57bcca610140957afab571")

\* An ssh_key "<type> <payload> <comment>", by its second and third token.
\* The first two are the same key with different encodings and comments.
SshKeys ==
    { [payload |-> "QQ==", comment |-> "home"],
      [payload |-> "QR==", comment |-> "work"],
      [payload |-> "Qg==", comment |-> "home"] }

\* ssh_key = None
NoKey == [payload |-> "-", comment |-> "-"]

\* hashlib.md5(base64.b64decode(ssh_key.split()[1])).hexdigest()
fingerprint(ssh_key) == Md5[B64Decode[ssh_key.payload]]

\* '{}-{}'.format(self.username, fingerprint)
key_name(username, ssh_key) == username \o "-" \o fingerprint(ssh_key)

\* A backend call failing with a server error.
ServerFailure == [type |-> "HttpException", status |-> 500, msg |-> MsgEmpty]

\* A key-pair of the compute service; key-pairs belong to a user.
Keypair(username, name, ssh_key) ==
    [user |-> username, name |-> name, public_key |-> ssh_key]

\* compute.find_keypair(key_name, False) finds a key-pair of the user.
find_keypair(kps, username, name) ==
    \E kp \in kps : kp.user = username /\ kp.name = name

\* What the key-pair step did: the requests it issued, whether it asked to
\* create a key-pair whose name exists, the failure it ended with and the
\* key-pairs it leaves.
KeyStep(issued, conflict, failure, kps) ==
    [issued |-> issued, conflict |-> conflict, failure |-> failure, kps |-> kps]

\* compute.create_keypair(name, public_key): the service refuses a name the
\* user has already (409).
create_keypair(kps, username, name, ssh_key, issued, f_create) ==
    IF find_keypair(kps, username, name)
    THEN KeyStep(issued, TRUE,
                 [type |-> "HttpException", status |-> 409, msg |-> MsgEmpty], kps)
    ELSE IF f_create # NoFailure THEN KeyStep(issued, FALSE, f_create, kps)
    ELSE KeyStep(issued, FALSE, NoFailure,
                 kps \cup { Keypair(username, name, ssh_key) })

\* A mutation of _get_or_create_keypair: the key-pair is created without
\* looking for it.
_create_keypair(kps, username, ssh_key, f_find, f_create) ==
    create_keypair(kps, username, key_name(username, ssh_key), ssh_key,
                   "create", f_create)

\* ScopedSession._get_or_create_keypair(ssh_key): f_find is a failure of
\* find_keypair other than not-found, f_create one of create_keypair.
_get_or_create_keypair(kps, username, ssh_key, f_find, f_create) ==
    IF f_find # NoFailure THEN KeyStep("find", FALSE, f_find, kps)
    ELSE IF find_keypair(kps, username, key_name(username, ssh_key))
    THEN KeyStep("find", FALSE, NoFailure, kps)
    ELSE create_keypair(kps, username, key_name(username, ssh_key), ssh_key,
                        "find+create", f_create)

\* Where a create_machine call fails: nowhere, or at the image lookup, the
\* tenant network, find_keypair, create_keypair, create_server or the final
\* find_machine.
FailurePoints ==
    { "none", "image", "network", "find_keypair", "create_keypair",
      "create_server", "find_machine" }

\* ScopedSession.create_machine(name, image, size, ssh_key) of the session
\* of `username`: the key-pair step it ran (issued "none": not reached or no
\* key given) and what the caller gets.
create_machine(kps, username, ssh_key, fail) ==
    IF fail = "image"
    THEN [step |-> KeyStep("none", FALSE, NoFailure, kps),
          outcome |-> Raised("BadInputError")]
    ELSE IF fail = "network"
    THEN [step |-> KeyStep("none", FALSE, NoFailure, kps),
          outcome |-> Raised("ImproperlyConfiguredError")]
    ELSE LET k == IF ssh_key = NoKey THEN KeyStep("none", FALSE, NoFailure, kps)
                  ELSE _get_or_create_keypair(
                           kps, username, ssh_key,
                           IF fail = "find_keypair" THEN ServerFailure ELSE NoFailure,
                           IF fail = "create_keypair" THEN ServerFailure ELSE NoFailure)
         IN  IF k.failure # NoFailure
             THEN [step |-> k, outcome |-> convert_sdk_exceptions(k.failure)]
             ELSE IF fail \in { "create_server", "find_machine" }
             THEN [step |-> k, outcome |-> convert_sdk_exceptions(ServerFailure)]
             ELSE [step |-> k, outcome |-> Returned("Machine")]

NoKCall ==
    [op |-> "none", user |-> "-", ssh_key |-> NoKey, fail |-> "none",
     issued |-> "none", conflict |-> FALSE, outcome |-> Returned("-")]

InitKey ==
    /\ keypairs = { }
    /\ submitted = { }
    /\ kcall = NoKCall

\* One create_machine call.  `submitted` collects the (user, key) whose
\* key-pair step ended without a failure.
CreateMachine ==
    /\ \E username \in Usernames, ssh_key \in SshKeys \cup { NoKey },
          fail \in FailurePoints :
         \E c \in { create_machine(keypairs, username, ssh_key, fail) } :
             /\ kcall' = [op |-> "create_machine", user |-> username,
                          ssh_key |-> ssh_key, fail |-> fail,
                          issued |-> c.step.issued, conflict |-> c.step.conflict,
                          outcome |-> c.outcome]
             /\ keypairs' = c.step.kps
             /\ submitted' = IF c.step.issued # "none" /\ c.step.failure = NoFailure
                             THEN submitted \cup { [user |-> username,
                                                    ssh_key |-> ssh_key] }
                             ELSE submitted
    /\ UNCHANGED exceptKey

NextKey == CreateMachine

---------------------------------------------------------------------------
(* SpecNet: floating IPs, and the deletion of machines                     *)

\* The servers of the tenancy.  Each has one port on the tenant network
\* while it exists; m3 has jasmin_nat_allowed "0" in its metadata.
ServerIds == { "m1", "m2", "m3" }

NatAllowed == ("m1" :> TRUE) @@ ("m2" :> TRUE) @@ ("m3" :> FALSE)

\* The floating IP addresses of the external network.  fips[a] is "free"
\* when a is not allocated to the tenancy, NoMachine when it is allocated
\* and bound to no port, and the server whose port it is bound to otherwise.
Addresses == { "a1", "a2" }

Unallocated == "free"

\* A dto.Machine (id, nat_allowed) and a dto.ExternalIp; NoneMachine stands
\* for None.
Machine(id) == [id |-> id, nat_allowed |-> NatAllowed[id]]

NoneMachine == [id |-> NoMachine, nat_allowed |-> FALSE]

ExternalIp(address, machine_id) ==
    [external_ip |-> address, machine_id |-> machine_id]

\* ScopedSession.find_machine(id) against the servers srvs: a server that is
\* being deleted is still found.
get_machine(srvs, id) ==
    IF srvs[id] = "gone" THEN Raised("ObjectNotFoundError") ELSE Returned(Machine(id))

\* The addresses bound to the port of a server.
BoundTo(ips, id) == { a \in Addresses : ips[a] = id }

\* What an operation did: the servers and floating IPs it leaves, the
\* mutating requests it issued and what the caller gets.
NetDid(srvs, ips, issued, outcome) ==
    [servers |-> srvs, fips |-> ips, issued |-> issued, outcome |-> outcome]

\* The points where the backend may fail a mutating request of an operation.
NetFailurePoints == { "none", "detach", "attach", "create", "delete" }

\* ScopedSession.allocate_external_ip(): `router` says whether the tenancy
\* has a router.  The network service allocates an address that is free and
\* refuses with a quota error when none is.
allocate_external_ip(srvs, ips, router, fail) ==
    IF ~router THEN NetDid(srvs, ips, << >>, Raised("ImproperlyConfiguredError"))
    ELSE IF fail = "create"
    THEN NetDid(srvs, ips, << "create" >>, convert_sdk_exceptions(ServerFailure))
    ELSE IF \A a \in Addresses : ips[a] # Unallocated
    THEN NetDid(srvs, ips, << "create" >>,
                convert_sdk_exceptions([type |-> "HttpException", status |-> 409,
                                        msg |-> MsgQuotaInstances]))
    ELSE LET a == CHOOSE a \in Addresses : ips[a] = Unallocated
         IN  NetDid(srvs, [ips EXCEPT ![a] = NoMachine], << "create" >>,
                    Returned(ExternalIp(a, NoMachine)))

\* A mutation of nat_refused: no machine is refused.
nat_never_refused(machine) == FALSE

\* `if not machine.nat_allowed`
nat_refused(machine) == ~machine.nat_allowed

\* A mutation of detach_current: the floating IP the port has is left bound.
keep_current(srvs, ips, id, fail) ==
    NetDid(srvs, ips, << >>, Returned("-"))

\* Lines 743-745 of attach_external_ip: the floating IP bound to the port of
\* the server, if there is one, is detached.
detach_current(srvs, ips, id, fail) ==
    IF BoundTo(ips, id) = { } THEN NetDid(srvs, ips, << >>, Returned("-"))
    ELSE IF fail = "detach"
    THEN NetDid(srvs, ips, << "detach" >>, convert_sdk_exceptions(ServerFailure))
    ELSE LET current == CHOOSE a \in BoundTo(ips, id) : TRUE
         IN  NetDid(srvs, [ips EXCEPT ![current] = NoMachine], << "detach" >>,
                    Returned("-"))

\* A mutation of attach_external_ip: a call that raises leaves the floating
\* IPs as it found them.
attach_external_ip_rollback(srvs, ips, ip, kind, id, fail) ==
    LET m == IF kind = "dto" THEN Returned(Machine(id)) ELSE get_machine(srvs, id)
    IN  IF m.kind = "raise" THEN NetDid(srvs, ips, << >>, m)
        ELSE IF nat_refused(m.val)
        THEN NetDid(srvs, ips, << >>, Raised("InvalidOperationError"))
        ELSE IF srvs[id] = "gone"
        THEN NetDid(srvs, ips, << >>, Raised("ImproperlyConfiguredError"))
        ELSE LET d == detach_current(srvs, ips, id, fail)
             IN  IF d.outcome.kind = "raise" THEN d
                 ELSE IF d.fips[ip] = Unallocated
                 THEN NetDid(srvs, ips, d.issued, Raised("ObjectNotFoundError"))
                 ELSE IF fail = "attach"
                 THEN NetDid(srvs, ips, d.issued \o << "attach" >>,
                             convert_sdk_exceptions(ServerFailure))
                 ELSE NetDid(srvs, [d.fips EXCEPT ![ip] = id],
                             d.issued \o << "attach" >>,
                             Returned(ExternalIp(ip, id)))

\* ScopedSession.attach_external_ip(ip, machine): `kind` says whether a
\* dto.Machine or a machine id was given.
attach_external_ip(srvs, ips, ip, kind, id, fail) ==
    LET m == IF kind = "dto" THEN Returned(Machine(id)) ELSE get_machine(srvs, id)
    IN  IF m.kind = "raise" THEN NetDid(srvs, ips, << >>, m)
        ELSE IF nat_refused(m.val)
        THEN NetDid(srvs, ips, << >>, Raised("InvalidOperationError"))
        ELSE IF srvs[id] = "gone"
        THEN NetDid(srvs, ips, << >>, Raised("ImproperlyConfiguredError"))
        ELSE LET d == detach_current(srvs, ips, id, fail)
             IN  IF d.outcome.kind = "raise" THEN d
                 ELSE IF d.fips[ip] = Unallocated
                 THEN NetDid(srvs, d.fips, d.issued, Raised("ObjectNotFoundError"))
                 ELSE IF fail = "attach"
                 THEN NetDid(srvs, d.fips, d.issued \o << "attach" >>,
                             convert_sdk_exceptions(ServerFailure))
                 ELSE NetDid(srvs, [d.fips EXCEPT ![ip] = id],
                             d.issued \o << "attach" >>,
                             Returned(ExternalIp(ip, id)))

\* ScopedSession.detach_external_ip(ip)
detach_external_ip(srvs, ips, ip, fail) ==
    IF ips[ip] = Unallocated
    THEN NetDid(srvs, ips, << >>, Raised("ObjectNotFoundError"))
    ELSE IF fail = "detach"
    THEN NetDid(srvs, ips, << "detach" >>, convert_sdk_exceptions(ServerFailure))
    ELSE NetDid(srvs, [ips EXCEPT ![ip] = NoMachine], << "detach" >>,
                Returned(ExternalIp(ip, NoMachine)))

\* The compute and network services once a server is gone: its port is
\* deleted and the floating IP bound to it is bound to no port.
Unbound(ips, id) == [a \in Addresses |-> IF ips[a] = id THEN NoMachine ELSE ips[a]]

\* compute.delete_server(id): `missing` says what the call does for a server
\* that is gone, raise ResourceNotFound ("raised") or nothing ("ignored");
\* `fast`, that the server is gone before it is fetched again.
delete_server(srvs, ips, id, fail, missing, fast) ==
    IF fail = "delete"
    THEN NetDid(srvs, ips, << "delete" >>, convert_sdk_exceptions(ServerFailure))
    ELSE IF srvs[id] = "gone"
    THEN NetDid(srvs, ips, << "delete" >>,
                IF missing = "raised" THEN convert_sdk_exceptions(GoneFailure)
                ELSE Returned("-"))
    ELSE IF fast
    THEN NetDid([srvs EXCEPT ![id] = "gone"], Unbound(ips, id), << "delete" >>,
                Returned("-"))
    ELSE NetDid([srvs EXCEPT ![id] = "deleting"], ips, << "delete" >>, Returned("-"))

\* A mutation of delete_machine: the error of the re-fetch is not caught.
delete_machine_refetch(srvs, ips, id, fail, missing, fast) ==
    LET d == delete_server(srvs, ips, id, fail, missing, fast)
    IN  IF d.outcome.kind = "raise" THEN d
        ELSE [d EXCEPT !.outcome = get_machine(d.servers, id)]

\* ScopedSession.delete_machine(machine)
delete_machine(srvs, ips, id, fail, missing, fast) ==
    LET d == delete_server(srvs, ips, id, fail, missing, fast)
    IN  IF d.outcome.kind = "raise" THEN d
        ELSE IF get_machine(d.servers, id).kind = "raise"
        THEN [d EXCEPT !.outcome = Returned(NoneMachine)]
        ELSE [d EXCEPT !.outcome = get_machine(d.servers, id)]

NoNCall ==
    [op |-> "none", machine |-> NoMachine, kind |-> "-", ip |-> "-",
     fail |-> "none", issued |-> << >>, outcome |-> Returned("-"),
     was |-> "-", changed |-> FALSE, bound |-> { },
     server_was |-> "-", server_is |-> "-", bound_was |-> { }]

\* The record of a call that did d: `was` is what the address was bound to
\* when the call started, `changed` whether the call changed a server or a
\* floating IP, `bound` the addresses bound to the port of the machine when
\* the call ended, `server_was` and `server_is` the state of the server of
\* the machine when the call started and when it ended, `bound_was` the
\* addresses bound to the port of the machine when the call started.
NCall(op, kind, id, ip, fail, d) ==
    [op |-> op, machine |-> id, kind |-> kind, ip |-> ip, fail |-> fail,
     issued |-> d.issued, outcome |-> d.outcome,
     was |-> IF ip \in Addresses THEN fips[ip] ELSE "-",
     changed |-> d.fips # fips \/ d.servers # servers,
     bound |-> IF id \in ServerIds THEN BoundTo(d.fips, id) ELSE { },
     server_was |-> IF id \in ServerIds THEN servers[id] ELSE "-",
     server_is |-> IF id \in ServerIds THEN d.servers[id] ELSE "-",
     bound_was |-> IF id \in ServerIds THEN BoundTo(fips, id) ELSE { }]

InitNet ==
    /\ servers = [id \in ServerIds |-> "active"]
    /\ fips = ("a1" :> "m1") @@ ("a2" :> Unallocated)
    /\ ncall = NoNCall

AllocateExternalIp ==
    /\ \E router \in BOOLEAN, fail \in { "none", "create" } :
         \E d \in { allocate_external_ip(servers, fips, router, fail) } :
             /\ ncall' = NCall("allocate_external_ip", "-", NoMachine, "-", fail, d)
             /\ fips' = d.fips
    /\ UNCHANGED << servers, exceptNet >>

AttachExternalIp ==
    /\ \E ip \in Addresses, kind \in { "id", "dto" }, id \in ServerIds,
          fail \in { "none", "detach", "attach" } :
         \E d \in { attach_external_ip(servers, fips, ip, kind, id, fail) } :
             /\ ncall' = NCall("attach_external_ip", kind, id, ip, fail, d)
             /\ fips' = d.fips
    /\ UNCHANGED << servers, exceptNet >>

DetachExternalIp ==
    /\ \E ip \in Addresses, fail \in { "none", "detach" } :
         \E d \in { detach_external_ip(servers, fips, ip, fail) } :
             /\ ncall' = NCall("detach_external_ip", "-", NoMachine, ip, fail, d)
             /\ fips' = d.fips
    /\ UNCHANGED << servers, exceptNet >>

DeleteMachine ==
    /\ \E id \in ServerIds, fail \in { "none", "delete" },
          missing \in { "raised", "ignored" }, fast \in BOOLEAN :
         \E d \in { delete_machine(servers, fips, id, fail, missing, fast) } :
             /\ ncall' = NCall("delete_machine", "-", id, "-", fail, d)
             /\ servers' = d.servers
             /\ fips' = d.fips
    /\ UNCHANGED exceptNet

\* The compute service finishes the deletion of a server.
ServerGone ==
    /\ \E id \in ServerIds :
         /\ servers[id] = "deleting"
         /\ servers' = [servers EXCEPT ![id] = "gone"]
         /\ fips' = Unbound(fips, id)
    /\ UNCHANGED << ncall, exceptNet >>

NextNet ==
    \/ AllocateExternalIp
    \/ AttachExternalIp
    \/ DetachExternalIp
    \/ DeleteMachine
    \/ ServerGone

---------------------------------------------------------------------------
(* SpecLap: two attach_external_ip calls that overlap                      *)

\* The calls, made from one session or from two; each backend call of
\* attach_external_ip is one step, and the steps of the two interleave.
Calls == { "c1", "c2" }

\* A call that has not started.
NotAttaching ==
    [pc |-> "idle", ip |-> "-", machine |-> NoMachine, current |-> "-",
     outcome |-> Returned("-")]

\* The failure of a request the network service refuses with 409 Conflict.
ConflictFailure == [type |-> "HttpException", status |-> 409, msg |-> MsgEmpty]

InitLap ==
    /\ bindings = ("a1" :> "m1") @@ ("a2" :> NoMachine)
    /\ attaching = [c \in Calls |-> NotAttaching]

\* Lines 722-741 of attach_external_ip: the call is given a dto.Machine and
\* an address, refuses a machine that is not allowed NAT, and finds the port
\* of the machine on the tenant network.
BeginAttach ==
    /\ \E c \in Calls, ip \in Addresses, id \in ServerIds :
         /\ attaching[c].pc = "idle"
         /\ attaching' = [attaching EXCEPT ![c] =
                IF nat_refused(Machine(id))
                THEN [pc |-> "done", ip |-> ip, machine |-> id, current |-> "-",
                      outcome |-> Raised("InvalidOperationError")]
                ELSE [pc |-> "current", ip |-> ip, machine |-> id,
                      current |-> "-", outcome |-> Returned("-")]]
    /\ UNCHANGED << bindings, exceptLap >>

\* Line 743: `current = next(self.connection.network.ips(port_id = port.id),
\* None)`, the first floating IP the network service lists for the port.
ReadCurrent ==
    /\ \E c \in Calls :
         /\ attaching[c].pc = "current"
         /\ IF BoundTo(bindings, attaching[c].machine) = { }
            THEN attaching' = [attaching EXCEPT ![c].pc = "find"]
            ELSE \E a \in BoundTo(bindings, attaching[c].machine) :
                     attaching' = [attaching EXCEPT ![c].pc = "detach",
                                                    ![c].current = a]
    /\ UNCHANGED << bindings, exceptLap >>

\* Lines 744-745: `update_ip(current, port_id = None)`
DetachCurrent ==
    /\ \E c \in Calls :
         /\ attaching[c].pc = "detach"
         /\ bindings' = [bindings EXCEPT ![attaching[c].current] = NoMachine]
         /\ attaching' = [attaching EXCEPT ![c].pc = "find"]
    /\ UNCHANGED exceptLap

\* Lines 747-749: the floating IP of the requested address is looked up.
FindIp ==
    /\ \E c \in Calls :
         /\ attaching[c].pc = "find"
         /\ attaching' = [attaching EXCEPT ![c] =
                IF bindings[attaching[c].ip] = Unallocated
                THEN [@ EXCEPT !.pc = "done",
                               !.outcome = Raised("ObjectNotFoundError")]
                ELSE [@ EXCEPT !.pc = "attach"]]
    /\ UNCHANGED << bindings, exceptLap >>

\* Lines 751-753: `update_ip(fip, port_id = port.id)`, which the network
\* service accepts.  The call sends no condition on what the port has.
BindAccepted ==
    /\ \E c \in Calls :
         /\ attaching[c].pc = "attach"
         /\ bindings' = [bindings EXCEPT ![attaching[c].ip] = attaching[c].machine]
         /\ attaching' = [attaching EXCEPT
                ![c].pc = "done",
                ![c].outcome = Returned(ExternalIp(attaching[c].ip,
                                                   attaching[c].machine))]
    /\ UNCHANGED exceptLap

\* Lines 751-753, when the network service refuses to give the port a second
\* floating IP: the failure is converted by convert_sdk_exceptions.
BindRefused ==
    /\ \E c \in Calls :
         /\ attaching[c].pc = "attach"
         /\ BoundTo(bindings, attaching[c].machine) \ { attaching[c].ip } # { }
         /\ attaching' = [attaching EXCEPT
                ![c].pc = "done",
                ![c].outcome = convert_sdk_exceptions(ConflictFailure)]
    /\ UNCHANGED << bindings, exceptLap >>

NextLap ==
    \/ BeginAttach
    \/ ReadCurrent
    \/ DetachCurrent
    \/ FindIp
    \/ BindAccepted
    \/ BindRefused

---------------------------------------------------------------------------
(* Specifications                                                          *)

InitErr == call = NoCall

Init ==
    /\ InitErr /\ InitCache /\ InitVol /\ InitSrv /\ InitQuota /\ InitKey
    /\ InitNet /\ InitLap

\* The machines share no variable, so each is checked by itself.
SpecErr == Init /\ [][NextErr]_vars

SpecCache == Init /\ [][NextCache]_vars

SpecVol == Init /\ [][NextVol]_vars

SpecSrv == Init /\ [][NextSrv]_vars

SpecQuota == Init /\ [][NextQuota]_vars

SpecKey == Init /\ [][NextKey]_vars

SpecNet == Init /\ [][NextNet]_vars

SpecLap == Init /\ [][NextLap]_vars

\* Volumes are kept by the block-storage service, machines and floating IPs
\* by the compute and network services, and no operation works on both: a
\* behaviour of SpecRes works on the volumes, or on the machines and
\* floating IPs, while the others are as they start.
NextRes ==
    \/ InitNet /\ NextVol
    \/ InitVol /\ NextNet

SpecRes == Init /\ [][NextRes]_vars

---------------------------------------------------------------------------
(* Claims checked under SpecVol                                            *)

C10_CurrentStatusGuards ==
    /\ /\ vcall.op = "delete_volume"
       /\ vcall.current \notin {"GONE", "AVAILABLE", "ERROR"}
       => /\ vcall.issued = "none"
          /\ vcall.outcome = VRaised("InvalidOperationError")
          /\ ~vcall.changed
    /\ /\ vcall.op = "attach_volume"
       /\ vcall.current \notin {"GONE", "AVAILABLE"}
       /\ vcall.attached # vcall.machine
       /\ vcall.resolved.machine_id # vcall.machine
       => /\ vcall.issued = "none"
          /\ vcall.outcome = VRaised("InvalidOperationError")
          /\ ~vcall.changed

\* C10, amended: the status that guards the request is the one of the volume
\* the operation works on, fetched from the backend when an id is given and
\* carried by the dto.Volume when one is given: the delete is issued only
\* when it is available or error, the attachment to another machine only
\* when it is available; with any other status the operation raises
\* InvalidOperationError, issues nothing and leaves the backend volume as it
\* was.
C10_ResolvedStatusGuards ==
    /\ vcall.op = "delete_volume" /\ vcall.resolved # NoDto =>
           IF vcall.resolved.status \in {"AVAILABLE", "ERROR"}
           THEN vcall.issued = "delete"
           ELSE /\ vcall.issued = "none"
                /\ vcall.outcome = VRaised("InvalidOperationError")
                /\ ~vcall.changed
    /\ /\ vcall.op = "attach_volume"
       /\ vcall.resolved # NoDto
       /\ vcall.resolved.machine_id # vcall.machine
       => IF vcall.resolved.status = "AVAILABLE"
          THEN vcall.issued = "attach"
          ELSE /\ vcall.issued = "none"
               /\ vcall.outcome = VRaised("InvalidOperationError")
               /\ ~vcall.changed

\* C10 witness: delete_volume of a volume that is in use, or attach_volume of
\* it to another machine, was refused with InvalidOperationError.
C10_Witness ==
    /\ vcall.op \in {"delete_volume", "attach_volume"}
    /\ vcall.resolved.status = "IN_USE"
    /\ vcall.resolved.machine_id \notin {NoMachine, vcall.machine}
    /\ vcall.outcome = VRaised("InvalidOperationError")

---------------------------------------------------------------------------
(* Claims checked under SpecSrv                                            *)

\* The server find_machine was run on.
TheServer == built.servers[1]

\* Nothing but the NAT-allowed resolution can fail for the server.
BuildsOtherwise(sdk_server) ==
    /\ sdk_server.has_image
    /\ sdk_server.power_state \in {0, 1, 3, 4, 6, 7}
    /\ built.network = "found"

\* C13: the NAT-allowed flag of a Machine.  A flag in the instance metadata
\* is used ("0" is false, "1" is true) and find_image is not called; without
\* a flag in the metadata the flag of the resolved image is used (true when
\* the image sets none); without a flag in the metadata and with an image
\* lookup that reports not-found, the flag is true.  In each case the
\* resolution raises nothing.
C13_NatAllowedOrder ==
    built.op = "find_machine" =>
        /\ TheServer.flag \in { << "0" >>, << "1" >> } =>
               /\ ~built.consulted
               /\ BuildsOtherwise(TheServer) =>
                      /\ built.outcome.kind = "return"
                      /\ built.outcome.val.nat_allowed = (TheServer.flag = << "1" >>)
        /\ TheServer.metadata \in NoFlag /\ BuildsOtherwise(TheServer) /\ built.image.found =>
               /\ built.consulted
               /\ built.outcome.kind = "return"
               /\ built.outcome.val.nat_allowed = (built.image.flag # << "0" >>)
        /\ /\ TheServer.metadata \in NoFlag
           /\ BuildsOtherwise(TheServer)
           /\ ~built.image.found
           /\ built.image.failure.status = 404
           => /\ built.consulted
              /\ built.outcome.kind = "return"
              /\ built.outcome.val.nat_allowed = TRUE

\* C13 witness: a server without the flag in its metadata, whose image is
\* gone, became a Machine that allows NAT.
C13_Witness ==
    /\ built.op = "find_machine"
    /\ TheServer.metadata = "absent"
    /\ ~built.image.found
    /\ built.image.failure.type = "ResourceNotFound"
    /\ built.consulted
    /\ built.outcome.kind = "return"
    /\ built.outcome.val.nat_allowed

\* C17 as stated: every backend volume status maps into the closed set; each
\* of the seven known statuses maps to its own phase, every status that
\* starts with "error_" maps to ERROR and every other status to OTHER.
C17_VolumeStatusMapping ==
    built.op = "volume_status" =>
        LET status == Lower(built.status)
            phase  == built.outcome.val
        IN  /\ built.outcome.kind = "return"
            /\ phase \in { "CREATING", "AVAILABLE", "ATTACHING", "DETACHING",
                           "IN_USE", "DELETING", "ERROR", "OTHER" }
            /\ phase = CASE status = ST_creating  -> "CREATING"
                         [] status = ST_available -> "AVAILABLE"
                         [] status = ST_attaching -> "ATTACHING"
                         [] status = ST_detaching -> "DETACHING"
                         [] status = ST_in_use    -> "IN_USE"
                         [] status = ST_deleting  -> "DELETING"
                         [] status = ST_error     -> "ERROR"
                         [] StartsWith(status, ST_error \o << "_" >>) -> "ERROR"
                         [] OTHER -> "OTHER"

\* The name the table of the specification gives a power-state code.
PowerStateName(code) ==
    CASE code = 0 -> "Unknown"
      [] code = 1 -> "Running"
      [] code = 3 -> "Paused"
      [] code = 4 -> "Shut down"
      [] code = 6 -> "Crashed"
      [] code = 7 -> "Suspended"
      [] OTHER -> "-"

\* C18: find_machine and machines return no Machine when the power-state
\* code of a server is outside {0, 1, 3, 4, 6, 7}: the call raises, and it
\* raises KeyError when nothing else fails before; every Machine that is
\* returned has the power-state name of its server's code.
C18_PowerStateMapping ==
    built.op \in { "find_machine", "machines" } =>
        /\ (\E i \in 1..Len(built.servers) :
                built.servers[i].power_state \notin {0, 1, 3, 4, 6, 7})
           => /\ built.outcome.kind = "raise"
              /\ built.outcome.err \notin Taxonomy \ { "ImproperlyConfiguredError",
                                                       "CommunicationError" }
              /\ /\ built.network = "found"
                 /\ \A i \in 1..Len(built.servers) :
                        /\ built.servers[i].has_image
                        /\ built.servers[i].flag \in { << >>, << "0" >>, << "1" >> }
                 /\ built.image.failure.status \in {0, 404}
                 => built.outcome.err = "KeyError"
        /\ built.outcome.kind = "return" /\ built.op = "find_machine" =>
               built.outcome.val.power_state = PowerStateName(TheServer.power_state)
        /\ built.outcome.kind = "return" /\ built.op = "machines" =>
               /\ Len(built.outcome.val) = Len(built.servers)
               /\ \A i \in 1..Len(built.servers) :
                      built.outcome.val[i].power_state
                          = PowerStateName(built.servers[i].power_state)

\* C18 witness: machines() on two servers, the second with the unmapped code
\* 2, raised KeyError.
C18_Witness ==
    /\ built.op = "machines"
    /\ Len(built.servers) = 2
    /\ built.servers[1].power_state = 1
    /\ built.servers[2].power_state = 2
    /\ built.outcome.kind = "raise"
    /\ built.outcome.err = "KeyError"

---------------------------------------------------------------------------
(* Claims checked under SpecQuota                                          *)

\* C20: quotas() returns six entries, in the order cpus, ram (MB), machines,
\* external_ips, storage (GB), volumes, the others without units; the limits
\* and usages are those of the compute limits, the network quota and the
\* volume limits, and the usage of external_ips is the number of floating
\* IPs the tenancy has.
C20_QuotaEntries ==
    quota.op = "quotas" /\ quota.raised = "-" =>
        /\ Len(quota.result) = 6
        /\ [i \in 1..6 |-> quota.result[i].resource]
             = << "cpus", "ram", "machines", "external_ips", "storage", "volumes" >>
        /\ [i \in 1..6 |-> quota.result[i].units]
             = << NoUnits, "MB", NoUnits, NoUnits, "GB", NoUnits >>
        /\ [i \in 1..6 |-> quota.result[i].allocated]
             = << quota.compute_limits.total_cores,
                  quota.compute_limits.total_ram,
                  quota.compute_limits.instances,
                  quota.network_quotas.floatingip,
                  quota.volume_limits.maxTotalVolumeGigabytes,
                  quota.volume_limits.maxTotalVolumes >>
        /\ [i \in 1..6 |-> quota.result[i].used]
             = << quota.compute_limits.total_cores_used,
                  quota.compute_limits.total_ram_used,
                  quota.compute_limits.instances_used,
                  Len(quota.ips),
                  quota.volume_limits.totalGigabytesUsed,
                  quota.volume_limits.totalVolumesUsed >>

\* C20 witness: quotas() returned, for a tenancy with no floating IP whose
\* compute service counts two, an external_ips usage of 0.
C20_Witness ==
    /\ quota.op = "quotas"
    /\ quota.raised = "-"
    /\ quota.ips = << >>
    /\ quota.compute_limits.floating_ips_used = 2
    /\ Len(quota.result) = 6
    /\ quota.result[4].used = 0

---------------------------------------------------------------------------
(* Claims checked under SpecKey                                            *)

\* C16: the key-pair name is the same for the same user and key bytes, and
\* differs for another user or another key; create_keypair is never issued
\* for a name the user has already; every (user, key) whose key-pair step
\* ended without a failure has exactly one key-pair of its name, and the
\* compute service holds as many key-pairs as there are distinct (user, key
\* bytes) among them.
C16_KeypairDeduplication ==
    /\ \A u1 \in Usernames, u2 \in Usernames, k1 \in SshKeys, k2 \in SshKeys :
           key_name(u1, k1) = key_name(u2, k2)
               <=> u1 = u2 /\ B64Decode[k1.payload] = B64Decode[k2.payload]
    /\ ~kcall.conflict
    /\ \A s \in submitted :
           Cardinality({ kp \in keypairs :
                           /\ kp.user = s.user
                           /\ kp.name = key_name(s.user, s.ssh_key) }) = 1
    /\ Cardinality(keypairs)
         = Cardinality({ << s.user, B64Decode[s.ssh_key.payload] >> : s \in submitted })

\* C16 witness: a user has submitted both encodings of one key and another
\* key, the last call found the key-pair of its key, and the user has two
\* key-pairs.
C16_Witness ==
    /\ { s.ssh_key : s \in { t \in submitted : t.user = "ann" } } = SshKeys
    /\ kcall.op = "create_machine"
    /\ kcall.user = "ann"
    /\ kcall.issued = "find"
    /\ kcall.outcome.kind = "return"
    /\ Cardinality({ kp \in keypairs : kp.user = "ann" }) = 2

---------------------------------------------------------------------------
(* Claims checked under SpecNet                                            *)

\* C11: no port has more than one floating IP bound, and an
\* attach_external_ip(ip, machine) that returned left the port of the
\* machine bound to the requested address and to no other, and returned
\* that binding.
C11_ExclusiveFloatingIp ==
    /\ \A id \in ServerIds : Cardinality(BoundTo(fips, id)) <= 1
    /\ ncall.op = "attach_external_ip" /\ ncall.outcome.kind = "return" =>
           /\ ncall.bound = { ncall.ip }
           /\ ncall.outcome.val = ExternalIp(ncall.ip, ncall.machine)

\* C11 witness: attach_external_ip bound an address to a machine whose port
\* had another address, which it detached first.
C11_Witness ==
    /\ ncall.op = "attach_external_ip"
    /\ ncall.outcome.kind = "return"
    /\ ncall.issued = << "detach", "attach" >>
    /\ ncall.was # ncall.machine
    /\ ncall.bound = { ncall.ip }

\* C12: attach_external_ip to a machine whose NAT-allowed flag is false
\* raises InvalidOperationError, issues no request that detaches or binds a
\* floating IP and leaves every binding as it was.  (Given the id of such a
\* machine that is gone, it raises ObjectNotFoundError, with no request
\* either.)
C12_NatDisallowedRefused ==
    ncall.op = "attach_external_ip" /\ ~NatAllowed[ncall.machine] =>
        /\ ncall.outcome.kind = "raise"
        /\ ncall.issued = << >>
        /\ ~ncall.changed
        /\ \/ ncall.outcome.err = "InvalidOperationError"
           \/ ncall.kind = "id" /\ ncall.outcome.err = "ObjectNotFoundError"

\* C12 witness: attach_external_ip of an allocated address to the machine
\* that does not allow NAT was refused.
C12_Witness ==
    /\ ncall.op = "attach_external_ip"
    /\ ncall.machine = "m3"
    /\ ncall.was = NoMachine
    /\ ncall.outcome.kind = "raise"
    /\ ncall.outcome.err = "InvalidOperationError"
    /\ ~ncall.changed

---------------------------------------------------------------------------
(* Claims checked under SpecRes                                            *)

\* A step in which the block-storage service accepts a delete request for
\* the volume v: the volume starts being deleted, or is gone at once.
DeleteAccepted(v) ==
    /\ volumes[v].exists
    /\ volumes[v].status # ST_deleting
    /\ ~volumes'[v].exists \/ volumes'[v].status = ST_deleting

\* What delete_volume returns in such a step: None when the volume is gone,
\* the volume as fetched again otherwise.
DeleteVolumeRefetched(v) ==
    /\ vcall'.op = "delete_volume"
    /\ vcall'.id = v
    /\ vcall'.outcome = IF volumes'[v].exists
                        THEN VReturned(_from_sdk_volume(v, volumes'[v]))
                        ELSE VReturned(NoDto)

\* What delete_machine returns: it returns when the backend does not fail
\* the delete request of a server that exists, and what it returns is None
\* when the server is gone, the machine as fetched again otherwise.
DeleteMachineRefetched ==
    ncall.op = "delete_machine" =>
        /\ ncall.fail = "none" /\ ncall.server_was # "gone" =>
               ncall.outcome.kind = "return"
        /\ ncall.outcome.kind = "return" =>
               ncall.outcome.val = IF ncall.server_is = "gone" THEN NoneMachine
                                   ELSE Machine(ncall.machine)

\* C14: delete_machine and delete_volume, once the backend has accepted the
\* delete request, return None when the re-fetch reports not-found, without
\* raising ObjectNotFoundError, and return the resource as fetched again
\* when the re-fetch finds it.
C14_DeleteReturnsNone ==
    [][ /\ \A v \in VolumeIds : DeleteAccepted(v) => DeleteVolumeRefetched(v)
        /\ DeleteMachineRefetched' ]_vars

\* C14 witness: delete_machine of a server that was gone when it was fetched
\* again returned None.
C14_Witness ==
    /\ ncall.op = "delete_machine"
    /\ ncall.server_was = "active"
    /\ ncall.server_is = "gone"
    /\ ncall.outcome.kind = "return"
    /\ ncall.outcome.val = NoneMachine

\* C15: detach_volume on a volume that has no machine attachment returns
\* that volume, raises nothing, issues no request and changes no volume;
\* detach_external_ip on an allocated address bound to no port, when the
\* backend fails no request, returns the address unattached and changes no
\* binding.
C15_DetachDetached ==
    /\ /\ vcall.op = "detach_volume"
       /\ vcall.resolved # NoDto
       /\ vcall.resolved.machine_id = NoMachine
       => /\ vcall.outcome = VReturned(vcall.resolved)
          /\ vcall.issued = "none"
          /\ ~vcall.changed
    /\ /\ ncall.op = "detach_external_ip"
       /\ ncall.was = NoMachine
       /\ ncall.fail = "none"
       => /\ ncall.outcome.kind = "return"
          /\ ncall.outcome.val = ExternalIp(ncall.ip, NoMachine)
          /\ ~ncall.changed

\* C15 witness: detach_external_ip of an address bound to no port returned
\* it unattached.
C15_Witness ==
    /\ ncall.op = "detach_external_ip"
    /\ ncall.was = NoMachine
    /\ ncall.outcome.kind = "return"
    /\ ncall.outcome.val.machine_id = NoMachine
    /\ ~ncall.changed

---------------------------------------------------------------------------
(* Claims checked under SpecNet: a failure inside attach_external_ip       *)

\* An attach_external_ip call that detached the floating IP bound to the
\* port of the machine and then raised: the requested address was not
\* found, or the network service refused to bind it.
AttachFailedAfterDetach ==
    /\ ncall.op = "attach_external_ip"
    /\ ncall.bound_was # { }
    /\ ncall.issued # << >>
    /\ ncall.issued[1] = "detach"
    /\ ncall.fail # "detach"
    /\ ncall.outcome.kind = "raise"

\* C21: when attach_external_ip has detached the floating IP bound to the
\* port of the machine and then fails, because the requested address is not
\* found or the backend refuses to bind it, the call raises, the address that
\* was bound stays bound to no port, and the port has no floating IP.
C21_AttachNotRolledBack ==
    AttachFailedAfterDetach =>
        /\ ncall.outcome.err
               \in { "ObjectNotFoundError", convert_sdk_exceptions(ServerFailure).err }
        /\ ncall.bound = { }
        /\ BoundTo(fips, ncall.machine) = { }
        /\ \A a \in ncall.bound_was : fips[a] = NoMachine

\* C21 witness: the network service refused to bind the requested address
\* after the address the port had was detached.
C21_Witness ==
    /\ AttachFailedAfterDetach
    /\ ncall.fail = "attach"
    /\ ncall.issued = << "detach", "attach" >>
    /\ ncall.ip \notin ncall.bound_was
    /\ \A a \in ncall.bound_was : fips[a] = NoMachine

---------------------------------------------------------------------------
(* Claims checked under SpecLap                                            *)

\* Both calls are over, and they were given the same machine and two
\* different addresses.
BothAttached ==
    /\ \A c \in Calls : attaching[c].pc = "done"
    /\ attaching["c1"].machine = attaching["c2"].machine
    /\ attaching["c1"].ip # attaching["c2"].ip

\* C22: once two attach_external_ip calls for the same machine and two
\* different addresses are both over, however their backend calls
\* interleaved, the port of the machine has at most one floating IP.
C22_ExclusiveUnderOverlap ==
    BothAttached =>
        Cardinality(BoundTo(bindings, attaching["c1"].machine)) <= 1

====
